---- MODULE Spec2Model ----
(***************************************************************************)
(* A model of the NIP-46 remote signer: the authorized-client store, the   *)
(* request dispatcher of src/src/remote_signer.cpp and the NIP-04 envelope *)
(* of src/lib/nostr/nostr.cpp.                                             *)
(*                                                                         *)
(* An Arduino String is a sequence of one-character strings. Keys are      *)
(* short hex strings of one fixed length (HexLen stands for the 64 hex     *)
(* characters of a real key).                                              *)
(***************************************************************************)
EXTENDS Integers, Sequences, FiniteSets, TLC

VARIABLES
    authorizedClients,   \* static String authorizedClients ('|'-joined pubkeys)
    prefs,               \* the "signer" Preferences namespace (key -> value)
    secretKey,           \* static String secretKey
    userPrivateKeyHex,
    userPublicKeyHex,
    devicePrivateKeyHex,
    devicePublicKeyHex,
    req,                 \* history: the request handled by the last step
    prevClients,         \* history: authorizedClients before the last step
    prevSecret,          \* history: secretKey before the last step
    sent,                \* history: frames given to webSocket.sendTXT by the last step
    keyOps,              \* history: private-key operations run by the last step
    relayUrl,
    unixTimestamp,
    signer_initialized,
    pc,                  \* position of the scenario (SpecCap, SpecNip04)
    n4,                  \* SpecNip04: message, cipher text and decrypted text
    millis,              \* millis(): milliseconds since the start
    keyCache,            \* nostr::keyCache (KEY_CACHE_SIZE slots)
    keyCacheIndex,
    ecdhCache,           \* nostr::ecdhCache (ECDH_CACHE_SIZE slots)
    ecdhCacheIndex,
    drv,                 \* history: the derivations made so far (SpecCache)
    connection_in_progress,
    reconnection_attempts,
    last_reconnect_attempt,
    manual_reconnect_needed,
    last_ws_message_received,
    wsConnected,         \* webSocket.isConnected()
    wifiConnected,       \* WiFiManager::isConnected()
    conn,                \* history: disconnect events in a row, and the last step
    oldSecret,           \* history: the session secret of the boot before (SpecConfig)
    heap,                \* the blocks got from malloc and not freed, and the last call (SpecHeap)
    uptime,              \* history: the time since the start, uncut, and when each
                         \* cache slot was stored in it (SpecWrap)
    out                  \* history: what the last call of loadConfigFromPreferences
                         \* or handleAPRoot wrote to Serial or sent as its page

vars == <<authorizedClients, prefs, secretKey, userPrivateKeyHex, userPublicKeyHex,
          devicePrivateKeyHex, devicePublicKeyHex, req, prevClients, prevSecret,
          sent, keyOps, relayUrl, unixTimestamp, signer_initialized, pc, n4,
          millis, keyCache, keyCacheIndex, ecdhCache, ecdhCacheIndex, drv,
          connection_in_progress, reconnection_attempts, last_reconnect_attempt,
          manual_reconnect_needed, last_ws_message_received, wsConnected, wifiConnected,
          conn, oldSecret, heap, uptime, out>>

\* The caches of nostr.cpp and the clock they read.
cacheVars == <<millis, keyCache, keyCacheIndex, ecdhCache, ecdhCacheIndex, drv>>

\* The connection state of remote_signer.cpp.
connVars == <<connection_in_progress, reconnection_attempts, last_reconnect_attempt,
              manual_reconnect_needed, last_ws_message_received, wsConnected, wifiConnected,
              conn>>

\* What the dispatcher scenarios leave alone.
auxVars == <<cacheVars, connVars, oldSecret, heap, uptime, out>>

\* What init() leaves alone.
bootVars == <<cacheVars, connVars, oldSecret, heap, uptime>>

(***************************************************************************)
(* Arduino String helpers                                                  *)
(***************************************************************************)
SetMin(S) == CHOOSE x \in S : \A y \in S : x <= y

\* String::indexOf(str): 0-based position of the first occurrence, -1 when
\* there is none; an empty receiver holds nothing (fromIndex >= len()).
indexOf(s, sub) ==
    IF Len(s) = 0 THEN -1
    ELSE LET hits == {i \in 1..(Len(s) - Len(sub) + 1) :
                         SubSeq(s, i, i + Len(sub) - 1) = sub}
         IN  IF hits = {} THEN -1 ELSE SetMin(hits) - 1

\* String::substring(from): the characters from 0-based index from to the end.
substringFrom(s, from) == SubSeq(s, from + 1, Len(s))

(***************************************************************************)
(* Authorization store                                                     *)
(***************************************************************************)
MAX_AUTHORIZED_CLIENTS == 30

\* isClientAuthorized without the look-up.
isClientAuthorizedAlways(list, clientPubKey) == TRUE

isClientAuthorized(list, clientPubKey) == indexOf(list, clientPubKey) # -1

getAuthorizedClientCount(list) ==
    IF Len(list) = 0 THEN 0
    ELSE 1 + Cardinality({i \in 1..Len(list) : list[i] = "|"})

\* mutant: drops the newest entry instead of the oldest
removeNewestClient(list) ==
    IF Len(list) = 0 THEN list
    ELSE LET seps == {i \in 1..Len(list) : list[i] = "|"}
         IN  IF seps = {} THEN <<>>
             ELSE SubSeq(list, 1, (CHOOSE i \in seps : \A j \in seps : j <= i) - 1)

removeOldestClient(list) ==
    IF Len(list) = 0 THEN list
    ELSE LET firstSeparator == indexOf(list, <<"|">>)
         IN  IF firstSeparator = -1 THEN <<>>
             ELSE substringFrom(list, firstSeparator + 1)

\* The in-memory effect of addAuthorizedClient; the save that follows it is
\* part of every action that calls it (SavedPrefs).
\* addAuthorizedClient that stores nothing.
addAuthorizedClientDropped(list, clientPubKey) == list

\* addAuthorizedClient with a look-up that compares the pubkey with the whole
\* list instead of searching the list for it.
addAuthorizedClientAgain(list, clientPubKey) ==
    IF list # clientPubKey
    THEN LET currentCount == getAuthorizedClientCount(list)
             spaced == IF currentCount >= MAX_AUTHORIZED_CLIENTS
                       THEN removeOldestClient(list) ELSE list
             joined == IF Len(spaced) > 0 THEN spaced \o <<"|">> ELSE spaced
         IN  joined \o clientPubKey
    ELSE list

addAuthorizedClient(list, clientPubKey) ==
    IF indexOf(list, clientPubKey) = -1
    THEN LET currentCount == getAuthorizedClientCount(list)
             spaced == IF currentCount >= MAX_AUTHORIZED_CLIENTS
                       THEN removeOldestClient(list) ELSE list
             joined == IF Len(spaced) > 0 THEN spaced \o <<"|">> ELSE spaced
         IN  joined \o clientPubKey
    ELSE list

\* trySaveConfigToPreferences as it would be without the write of auth_clients
SavedPrefsNoClients(p, url, upriv, upub, clients) ==
    [p EXCEPT !.relay_url = url, !.user_private_key = upriv, !.user_public_key = upub]

\* trySaveConfigToPreferences: the four values it writes.
SavedPrefs(p, url, upriv, upub, clients) ==
    [p EXCEPT !.relay_url = url, !.user_private_key = upriv,
              !.user_public_key = upub, !.auth_clients = clients]

(***************************************************************************)
(* Text                                                                    *)
(***************************************************************************)
Q == "\""
BS == "\\"

\* The bytes 1..16 as characters (AES padding bytes); 9, 10 and 13 are the
\* tab, line feed and carriage return characters.
PadByte == <<"x01", "x02", "x03", "x04", "x05", "x06", "x07", "x08",
             "\t", "\n", "x0b", "x0c", "\r", "x0e", "x0f", "x10">>
NUL == "x00"

\* isspace() of the C library
isspace(c) == c \in {" ", "\t", "\n", "x0b", "x0c", "\r"}

\* String::trim(): strips the isspace characters at both ends.
trim(s) ==
    LET keep == {i \in 1..Len(s) : ~isspace(s[i])}
    IN  IF keep = {} THEN <<>>
        ELSE SubSeq(s, SetMin(keep), CHOOSE i \in keep : \A j \in keep : j <= i)

\* String::replace(find, replace) for a one-character find.
RECURSIVE replace(_, _, _)
replace(s, find, with) ==
    IF Len(s) = 0 THEN <<>>
    ELSE IF Len(s) = 1 THEN (IF s[1] = find THEN with ELSE s)
    ELSE replace(SubSeq(s, 1, Len(s) \div 2), find, with)
         \o replace(SubSeq(s, (Len(s) \div 2) + 1, Len(s)), find, with)

\* String(n) of a non-negative integer: its decimal digits.
Digit == <<"0", "1", "2", "3", "4", "5", "6", "7", "8", "9">>
RECURSIVE Dec(_)
Dec(n) == IF n < 10 THEN <<Digit[n + 1]>> ELSE Dec(n \div 10) \o <<Digit[(n % 10) + 1]>>

(***************************************************************************)
(* Keys and the cryptographic primitives (symbolic)                        *)
(***************************************************************************)
HexLen == 2

\* A hex string of HexLen characters: c, then n repeated.
Key(c, n) == [i \in 1..HexLen |-> IF i = 1 THEN c ELSE n]

\* PrivateKey(bytes).publicKey().toString().substring(2): the x-only public
\* key of a private key, an injective function of it (here: its mirror image).
publicKey(privHex) == [i \in 1..Len(privHex) |-> privHex[Len(privHex) + 1 - i]]

\* privateKey.ecdh(publicKey, sharedPointX): the Diffie-Hellman secret of the
\* two key pairs, the same from either side.
ecdh(privHex, pubHex) == {publicKey(privHex), pubHex}

\* toHex(sha256(message)) as one text atom.
sha256Hex(message) == ToString([sha256 |-> message])

\* String(privateKey.schnorr_sign(hash)) as one text atom.
schnorr_sign(privHex, msgHash) == ToString([schnorr |-> privHex, msg |-> msgHash])

HexDigits == <<"0", "1", "2", "3", "4", "5", "6", "7", "8", "9", "a", "b", "c", "d", "e", "f">>

HexVal(c) == (CHOOSE i \in 1..16 : HexDigits[i] = c) - 1

\* refreshSecretKey as it would be with one character less
refreshSecretKeyShort(random) ==
    [i \in 1..(HexLen - 1) |-> HexDigits[(random[i] % 16) + 1]]

\* refreshSecretKey: random[i] is the i-th value of esp_random()
refreshSecretKey(random) == [i \in 1..HexLen |-> HexDigits[(random[i] % 16) + 1]]

DevicePriv == Key("d", "1")
UserPriv == Key("e", "2")
ThirdPriv == Key("f", "3")
ClientPrivs == {Key("a", "7"), Key("b", "8")}
ClientPubKeys == {publicKey(k) : k \in ClientPrivs}
SecretDraws == {Key(21, 26), Key(5, 27)}
Secrets == {refreshSecretKey(r) : r \in SecretDraws}
DefaultRelay == <<"w", "s", "s">>

(***************************************************************************)
(* NIP-44 envelope                                                         *)
(***************************************************************************)
\* executeEncryptMessageNip44(plaintext, privateKeyHex, recipientPubKeyHex)
executeEncryptMessageNip44(plaintext, privHex, pubHex) ==
    [scheme |-> "nip44", key |-> ecdh(privHex, pubHex), iv |-> "none",
     data |-> plaintext, marker |-> FALSE]

\* executeDecryptMessageNip44(ciphertext, privateKeyHex, senderPubKeyHex): the
\* plaintext, or the empty string when the payload does not authenticate.
executeDecryptMessageNip44(cipherText, privHex, pubHex) ==
    IF cipherText.scheme = "nip44" /\ cipherText.key = ecdh(privHex, pubHex)
    THEN cipherText.data ELSE <<>>

(***************************************************************************)
(* NIP-04 envelope                                                         *)
(*                                                                         *)
(* A cipher text string base64(ct) + "?iv=" + base64(iv) is the record     *)
(* [scheme, key, iv, data, marker]: data are the bytes that were           *)
(* encrypted, readable again under the same key and iv; marker tells       *)
(* whether the string holds "?iv=".                                        *)
(***************************************************************************)
AES_BLOCKLEN == 16

\* Length of the base64 text of n bytes.
Base64Len(n) == 4 * ((n + 2) \div 3)

\* stringToByteArray: the message, then padding_diff bytes of that value.
stringToByteArray(input, padding_diff) ==
    input \o [j \in 1..padding_diff |-> PadByte[padding_diff]]

\* encryptData: pad to a multiple of 16 and AES-256-CBC encrypt.
encryptData(key, iv, msg) ==
    LET padding_diff == IF Len(msg) % AES_BLOCKLEN = 0 THEN AES_BLOCKLEN
                        ELSE AES_BLOCKLEN - (Len(msg) % AES_BLOCKLEN)
        messageBin == stringToByteArray(msg, padding_diff)
    IN  [key |-> key, iv |-> iv, data |-> messageBin]

getCipherText(privateKeyHex, recipientPubKeyHex, content, iv) ==
    LET sharedPointX == ecdh(privateKeyHex, recipientPubKeyHex)
        enc == encryptData(sharedPointX, iv, content)
    IN  [scheme |-> "nip04", key |-> enc.key, iv |-> enc.iv, data |-> enc.data,
         marker |-> TRUE]

\* The characters of bytes up to the first NUL.
RECURSIVE UntilNul(_)
UntilNul(bytes) ==
    IF bytes = <<>> \/ Head(bytes) = NUL THEN <<>>
    ELSE <<Head(bytes)>> \o UntilNul(Tail(bytes))

\* decryptData(key, iv, encryptedMessageBin, byteSize): AES-256-CBC decrypt
\* byteSize bytes of the buffer in place and read them as a C string. The
\* buffer holds the decoded cipher text (ct) and, behind it, whatever it held
\* before (stale); a wrong key or iv yields other bytes (junk).
decryptData(key, iv, ct, byteSize, stale, junk) ==
    LET plain == IF ct.key = key /\ ct.iv = iv THEN ct.data
                 ELSE [i \in 1..Len(ct.data) |-> junk[((i - 1) % Len(junk)) + 1]]
        buffer == plain \o stale
    IN  UntilNul(SubSeq(buffer, 1, byteSize))

\* decryptNip04Ciphertext(cipherText, privateKeyHex, senderPubKeyHex)
decryptNip04Ciphertext(cipherText, privateKeyHex, senderPubKeyHex, stale, junk) ==
    LET encryptedMessageLen == Base64Len(Len(cipherText.data))
        encryptedMessageSize == (encryptedMessageLen * 3) \div 4
        sharedPointX == ecdh(privateKeyHex, senderPubKeyHex)
        \* without "?iv=" the iv is cut from the wrong place of the string
        ivBin == IF cipherText.marker THEN cipherText.iv ELSE "misread"
        message == decryptData(sharedPointX, ivBin, cipherText, encryptedMessageSize,
                               stale, junk)
    IN  trim(message)

\* The empty string as a content.
EmptyContent == [scheme |-> "none", key |-> {}, iv |-> "none", data |-> <<>>, marker |-> FALSE]

\* getSenderPubKeyHex(serialisedJson): the pubkey of the event of a relay
\* frame. frame.json tells whether the text of the frame deserializes; when it
\* does not, the error is printed and the member is read from the emptied
\* document.
getSenderPubKeyHex(frame) == IF frame.json THEN frame.pubkey ELSE <<>>

\* getPubKeyAndContent(serialisedJson): two empty strings when the text does
\* not deserialize.
getPubKeyAndContent(frame) ==
    IF frame.json THEN [first |-> frame.pubkey, second |-> frame.content]
    ELSE [first |-> <<>>, second |-> EmptyContent]

\* nip04Decrypt(privateKeyHex, serialisedJson) on the event of a relay frame
nip04Decrypt(privateKeyHex, frame, stale, junk) ==
    LET result == getPubKeyAndContent(frame)
    IN  IF ~result.second.marker THEN <<>>
        ELSE decryptNip04Ciphertext(result.second, privateKeyHex, result.first, stale, junk)

\* nip44Decrypt(privateKeyHex, serialisedJson)
nip44Decrypt(privateKeyHex, frame) ==
    LET result == getPubKeyAndContent(frame)
    IN  executeDecryptMessageNip44(result.second, privateKeyHex, result.first)

\* The private-key operations of the decryption of a relay frame: nip04Decrypt
\* returns before it touches the key when the content holds no "?iv=",
\* nip44Decrypt always hands the key to executeDecryptMessageNip44.
decryptOps(privateKeyHex, frame) ==
    IF frame.content.marker /\ ~getPubKeyAndContent(frame).second.marker THEN {}
    ELSE {[op |-> "decrypt_request", key |-> privateKeyHex]}

(***************************************************************************)
(* JSON documents                                                          *)
(*                                                                         *)
(* A parsed request is a record [id, method, params]; its text is one atom *)
(* (the parser reads one document and ignores what follows it). The        *)
(* texts the signer builds itself are built character by character.       *)
(***************************************************************************)
\* The fields are named here in the order id, method, params: TLC compares
\* records field by field in the order the names first occur, and params of
\* different methods (texts, ciphertexts) are not comparable.
Doc(id, method, params) == [id |-> id, method |-> method, params |-> params]
NoDoc == [id |-> <<>>, method |-> "(none)", params |-> <<>>]
serializeJson(doc) == <<ToString(doc)>>

\* deserializeJson(target, text): the document among docs (the documents in
\* flight) that text begins with, or an error.
deserializeJson(text, docs) ==
    LET m == {d \in docs : Len(text) > 0 /\ text[1] = ToString(d)}
    IN  IF m = {} THEN [error |-> TRUE, doc |-> "none"]
        ELSE [error |-> FALSE, doc |-> CHOOSE d \in m : TRUE]

\* "{\"id\":\"" + requestId + "\",\"result\":\"" + result + "\"}"
ResponseMsg(requestId, result) ==
    <<"{", Q, "i", "d", Q, ":", Q>> \o requestId
    \o <<Q, ",", Q, "r", "e", "s", "u", "l", "t", Q, ":", Q>> \o result \o <<Q, "}">>

(***************************************************************************)
(* Notes and encrypted direct messages                                     *)
(***************************************************************************)
\* The [0,pubkey,created_at,kind,tags,content] text of getNote.
NoteArray(pubKeyHex, timestamp, kind, tags, content) ==
    <<"[", "0", ",", Q>> \o pubKeyHex \o <<Q, ",">> \o Dec(timestamp) \o <<",">>
    \o Dec(kind) \o <<",">> \o tags \o <<",", Q>> \o content \o <<Q, "]">>

\* The {"id":..,"pubkey":..,"created_at":..,"kind":..,"tags":..,"content":..,"sig":..}
\* text of getNote.
NoteObject(msgHash, pubKeyHex, timestamp, kind, tags, content, signatureHex) ==
    <<"{", Q, "i", "d", Q, ":", Q, msgHash, Q, ",",
      Q, "p", "u", "b", "k", "e", "y", Q, ":", Q>> \o pubKeyHex
    \o <<Q, ",", Q, "c", "r", "e", "a", "t", "e", "d", "_", "a", "t", Q, ":">>
    \o Dec(timestamp)
    \o <<",", Q, "k", "i", "n", "d", Q, ":">> \o Dec(kind)
    \o <<",", Q, "t", "a", "g", "s", Q, ":">> \o tags
    \o <<",", Q, "c", "o", "n", "t", "e", "n", "t", Q, ":", Q>> \o content
    \o <<Q, ",", Q, "s", "i", "g", Q, ":", Q, signatureHex, Q, "}">>

\* The escaping getNote applies to the content.
NoteEscape(content) ==
    replace(replace(replace(replace(content, Q, <<BS, Q>>),
                            "\n", <<BS, "n">>), "\r", <<BS, "r">>), "\t", <<BS, "t">>)

getNote(privateKeyHex, pubKeyHex, timestamp, content, kind, tags) ==
    LET escaped == NoteEscape(content)
        message == NoteArray(pubKeyHex, timestamp, kind, tags, escaped)
        msgHash == sha256Hex(message)
        signatureHex == schnorr_sign(privateKeyHex, msgHash)
    IN  NoteObject(msgHash, pubKeyHex, timestamp, kind, tags, escaped, signatureHex)

getSerialisedEncryptedDmArray(pubKeyHex, recipientPubKeyHex, kind, timestamp, enc) ==
    <<0, pubKeyHex, timestamp, kind, <<<<"p", recipientPubKeyHex>>>>, enc>>

getSerialisedEncryptedDmObject(pubKeyHex, recipientPubKeyHex, kind, msgHash, timestamp, enc, schnorrSig) ==
    [type |-> "EVENT", id |-> msgHash, pubkey |-> pubKeyHex, created_at |-> timestamp,
     kind |-> kind, tags |-> <<<<"p", recipientPubKeyHex>>>>, content |-> enc,
     sig |-> schnorrSig]

\* getEncryptedDm(privateKeyHex, pubKeyHex, recipientPubKeyHex, kind, timestamp,
\* content, type); iv is the random iv getCipherText draws.
getEncryptedDm(privateKeyHex, pubKeyHex, recipientPubKeyHex, kind, timestamp, content, type, iv) ==
    LET enc == IF type = "nip44"
               THEN executeEncryptMessageNip44(content, privateKeyHex, recipientPubKeyHex)
               ELSE getCipherText(privateKeyHex, recipientPubKeyHex, content, iv)
        message == getSerialisedEncryptedDmArray(pubKeyHex, recipientPubKeyHex, kind,
                                                 timestamp, enc)
        msgHash == sha256Hex(message)
        signatureHex == schnorr_sign(privateKeyHex, msgHash)
    IN  getSerialisedEncryptedDmObject(pubKeyHex, recipientPubKeyHex, kind, msgHash,
                                       timestamp, enc, signatureHex)

(***************************************************************************)
(* The NIP-46 dispatcher                                                   *)
(*                                                                         *)
(* st is the signer's state [clients, secretKey, userPriv, userPub,        *)
(* devPriv, devPub, now]; rnd are the values a handler draws or finds:     *)
(* [iv, stale, junk]. A handler yields its effect: the client list, whether*)
(* the configuration was saved, the frames sent and the private-key        *)
(* operations it ran.                                                      *)
(***************************************************************************)
KIND_NIP46 == 24133

Effect(clients, save, frames, ops) ==
    [clients |-> clients, save |-> save, sent |-> frames, ops |-> ops]

NoEffect(st) == Effect(st.clients, FALSE, <<>>, {})

\* The response event every handler ends with, under the device key pair.
Respond(st, recipient, responseMsg, type, rnd) ==
    getEncryptedDm(st.devPriv, st.devPub, recipient, KIND_NIP46, st.now, responseMsg, type, rnd.iv)

RespondOps(st) ==
    {[op |-> "encrypt_response", key |-> st.devPriv],
     [op |-> "sign_response", key |-> st.devPriv]}

\* A prompt hook that approves.
promptUserApproves(requestingNpub) == TRUE

promptUserForAuthorization(requestingNpub) == FALSE

\* checkClientIsAuthorized: [ok, clients, save]
checkClientIsAuthorized(st, clientPubKey, secret) ==
    IF isClientAuthorized(st.clients, clientPubKey)
    THEN [ok |-> TRUE, clients |-> st.clients, save |-> FALSE]
    ELSE IF trim(secret) = st.secretKey
         THEN [ok |-> TRUE, clients |-> addAuthorizedClient(st.clients, clientPubKey),
               save |-> indexOf(st.clients, clientPubKey) = -1]
         ELSE [ok |-> promptUserForAuthorization(clientPubKey), clients |-> st.clients,
               save |-> FALSE]

handleConnect(doc, requestingPubKey, st, rnd) ==
    LET requestId == doc.id
        secret == doc.params[2]
        chk == checkClientIsAuthorized(st, requestingPubKey, secret)
        responseMsg == IF Len(secret) > 0 THEN ResponseMsg(requestId, secret)
                       ELSE ResponseMsg(requestId, <<"a", "c", "k">>)
    IN  IF ~chk.ok THEN NoEffect(st)
        ELSE Effect(chk.clients, chk.save,
                    <<Respond(st, requestingPubKey, responseMsg, "nip44", rnd)>>,
                    RespondOps(st))

\* The documents an event parameter can parse to.
EventContents == {<<"h", "i">>, <<"a", Q, "b">>, <<"a", BS, "b">>, <<"a", "\n">>}
EventDocs ==
    {[kind |-> 1, content |-> c, tags |-> <<"[", "]">>, created_at |-> 1700000000] :
        c \in EventContents}

\* handleSignEvent without the check of the parse result: it signs the
\* empty document.
handleSignEventUnparsed(doc, requestingPubKey, st, rnd) ==
    LET requestId == doc.id
        parsed == deserializeJson(doc.params[1], EventDocs)
        null == <<"n", "u", "l", "l">>
        ev == IF parsed.error THEN [kind |-> 0, content |-> null, tags |-> null, created_at |-> 0]
              ELSE parsed.doc
        signedEvent == getNote(st.userPriv, st.userPub, ev.created_at, ev.content, ev.kind, ev.tags)
        escaped == replace(replace(signedEvent, BS, <<BS, BS>>), Q, <<BS, Q>>)
    IN  IF ~isClientAuthorized(st.clients, requestingPubKey) THEN NoEffect(st)
        ELSE Effect(st.clients, FALSE,
                    <<Respond(st, requestingPubKey, ResponseMsg(requestId, escaped), "nip44", rnd)>>,
                    {[op |-> "sign_event", key |-> st.userPriv]} \cup RespondOps(st))

handleSignEvent(doc, requestingPubKey, st, rnd) ==
    LET requestId == doc.id
        eventParams == doc.params[1]
        parsed == deserializeJson(eventParams, EventDocs)
        ev == parsed.doc
        signKey == st.userPriv
        kind == ev.kind % 65536
        timestamp == ev.created_at
        signedEvent == getNote(signKey, st.userPub, timestamp, ev.content, kind, ev.tags)
        escaped == replace(replace(signedEvent, BS, <<BS, BS>>), Q, <<BS, Q>>)
        responseMsg == ResponseMsg(requestId, escaped)
    IN  IF ~isClientAuthorized(st.clients, requestingPubKey) THEN NoEffect(st)
        ELSE IF parsed.error THEN NoEffect(st)
        ELSE Effect(st.clients, FALSE,
                    <<Respond(st, requestingPubKey, responseMsg, "nip44", rnd)>>,
                    {[op |-> "sign_event", key |-> signKey]} \cup RespondOps(st))

\* handlePing that answers without the request's id.
handlePingNoId(doc, requestingPubKey, st, rnd) ==
    IF ~isClientAuthorized(st.clients, requestingPubKey) THEN NoEffect(st)
    ELSE Effect(st.clients, FALSE,
                <<Respond(st, requestingPubKey, ResponseMsg(<<>>, <<"p", "o", "n", "g">>), "nip44", rnd)>>,
                RespondOps(st))

handlePing(doc, requestingPubKey, st, rnd) ==
    LET requestId == doc.id
        responseMsg == ResponseMsg(requestId, <<"p", "o", "n", "g">>)
    IN  IF ~isClientAuthorized(st.clients, requestingPubKey) THEN NoEffect(st)
        ELSE Effect(st.clients, FALSE,
                    <<Respond(st, requestingPubKey, responseMsg, "nip44", rnd)>>,
                    RespondOps(st))

\* handleGetPublicKey that answers with the device's public key.
handleGetPublicKeyDevice(doc, requestingPubKey, st, rnd) ==
    IF ~isClientAuthorized(st.clients, requestingPubKey) THEN NoEffect(st)
    ELSE Effect(st.clients, FALSE,
                <<Respond(st, requestingPubKey, ResponseMsg(doc.id, st.devPub), "nip44", rnd)>>,
                RespondOps(st))

handleGetPublicKey(doc, requestingPubKey, st, rnd) ==
    LET requestId == doc.id
        responseMsg == ResponseMsg(requestId, st.userPub)
    IN  IF ~isClientAuthorized(st.clients, requestingPubKey) THEN NoEffect(st)
        ELSE Effect(st.clients, FALSE,
                    <<Respond(st, requestingPubKey, responseMsg, "nip44", rnd)>>,
                    RespondOps(st))

\* A cipher text as it appears inside a response text: one atom.
CipherString(c) == <<ToString(c)>>

handleNip04Encrypt(doc, requestingPubKey, st, rnd) ==
    LET requestId == doc.id
        thirdPartyPubKey == doc.params[1]
        plaintext == doc.params[2]
        encKey == st.userPriv
        encryptedMessage == getCipherText(encKey, thirdPartyPubKey, plaintext, rnd.iv)
        responseMsg == ResponseMsg(requestId, CipherString(encryptedMessage))
    IN  IF ~isClientAuthorized(st.clients, requestingPubKey) THEN NoEffect(st)
        ELSE Effect(st.clients, FALSE,
                    <<Respond(st, requestingPubKey, responseMsg, "nip04", rnd)>>,
                    {[op |-> "nip04_encrypt", key |-> encKey]} \cup RespondOps(st))

handleNip04Decrypt(doc, requestingPubKey, st, rnd) ==
    LET requestId == doc.id
        thirdPartyPubKey == doc.params[1]
        cipherText == doc.params[2]
        decKey == st.userPriv
        decryptedMessage == decryptNip04Ciphertext(cipherText, decKey, thirdPartyPubKey, rnd.stale, rnd.junk)
        responseMsg == ResponseMsg(requestId, decryptedMessage)
    IN  IF ~isClientAuthorized(st.clients, requestingPubKey) THEN NoEffect(st)
        ELSE Effect(st.clients, FALSE,
                    <<Respond(st, requestingPubKey, responseMsg, "nip04", rnd)>>,
                    {[op |-> "nip04_decrypt", key |-> decKey]} \cup RespondOps(st))

handleNip44Encrypt(doc, requestingPubKey, st, rnd) ==
    LET requestId == doc.id
        thirdPartyPubKey == doc.params[1]
        plaintext == doc.params[2]
        encKey == st.userPriv
        encryptedMessage == executeEncryptMessageNip44(plaintext, encKey, thirdPartyPubKey)
        responseMsg == ResponseMsg(requestId, CipherString(encryptedMessage))
    IN  IF ~isClientAuthorized(st.clients, requestingPubKey) THEN NoEffect(st)
        ELSE Effect(st.clients, FALSE,
                    <<Respond(st, requestingPubKey, responseMsg, "nip44", rnd)>>,
                    {[op |-> "nip44_encrypt", key |-> encKey]} \cup RespondOps(st))

\* handleNip44Decrypt as it would be if it decrypted before the check of the
\* requester
handleNip44DecryptEarly(doc, requestingPubKey, st, rnd) ==
    LET requestId == doc.id
        thirdPartyPubKey == doc.params[1]
        cipherText == doc.params[2]
        decKey == st.userPriv
        decryptedMessage == executeDecryptMessageNip44(cipherText, decKey, thirdPartyPubKey)
        responseMsg == ResponseMsg(requestId, decryptedMessage)
    IN  IF ~isClientAuthorized(st.clients, requestingPubKey)
        THEN [NoEffect(st) EXCEPT !.ops = {[op |-> "nip44_decrypt", key |-> decKey]}]
        ELSE Effect(st.clients, FALSE,
                    <<Respond(st, requestingPubKey, responseMsg, "nip44", rnd)>>,
                    {[op |-> "nip44_decrypt", key |-> decKey]} \cup RespondOps(st))

handleNip44Decrypt(doc, requestingPubKey, st, rnd) ==
    LET requestId == doc.id
        thirdPartyPubKey == doc.params[1]
        cipherText == doc.params[2]
        decKey == st.userPriv
        decryptedMessage == executeDecryptMessageNip44(cipherText, decKey, thirdPartyPubKey)
        responseMsg == ResponseMsg(requestId, decryptedMessage)
    IN  IF ~isClientAuthorized(st.clients, requestingPubKey) THEN NoEffect(st)
        ELSE Effect(st.clients, FALSE,
                    <<Respond(st, requestingPubKey, responseMsg, "nip44", rnd)>>,
                    {[op |-> "nip44_decrypt", key |-> decKey]} \cup RespondOps(st))

\* handleSigningRequestEvent(data): decrypt, parse and route one relay frame.
handleSigningRequestEvent(frame, st, rnd, docs) ==
    LET requestingPubKey == getSenderPubKeyHex(frame)
        decKey == st.devPriv
        decryptedMessage == IF frame.content.marker
                            THEN nip04Decrypt(decKey, frame, rnd.stale, rnd.junk)
                            ELSE nip44Decrypt(decKey, frame)
        parsed == deserializeJson(decryptedMessage, docs)
        doc == parsed.doc
        method == doc.method
        e == IF Len(decryptedMessage) = 0 THEN NoEffect(st)
             ELSE IF parsed.error THEN NoEffect(st)
             ELSE IF method = "connect" THEN handleConnect(doc, requestingPubKey, st, rnd)
             ELSE IF method = "sign_event" THEN handleSignEvent(doc, requestingPubKey, st, rnd)
             ELSE IF method = "ping" THEN handlePing(doc, requestingPubKey, st, rnd)
             ELSE IF method = "get_public_key" THEN handleGetPublicKey(doc, requestingPubKey, st, rnd)
             ELSE IF method = "nip04_encrypt" THEN handleNip04Encrypt(doc, requestingPubKey, st, rnd)
             ELSE IF method = "nip04_decrypt" THEN handleNip04Decrypt(doc, requestingPubKey, st, rnd)
             ELSE IF method = "nip44_encrypt" THEN handleNip44Encrypt(doc, requestingPubKey, st, rnd)
             ELSE IF method = "nip44_decrypt" THEN handleNip44Decrypt(doc, requestingPubKey, st, rnd)
             ELSE NoEffect(st)
    IN  [e EXCEPT !.ops = @ \cup decryptOps(decKey, frame)]

(***************************************************************************)
(* The key cache and the ECDH cache                                        *)
(*                                                                         *)
(* A decoded key is a record holding the bytes read from the hex string    *)
(* (one number per hex digit). millis() is an unsigned long: the counter   *)
(* starts again at 0 after MillisModulus milliseconds, and the difference  *)
(* currentTime - timestamp is taken modulo MillisModulus. The counter of   *)
(* the device has 32 bits; the integers of TLC end at 2^31 - 1, so that    *)
(* the counter here has 30 bits. The time to live is far below either      *)
(* modulus.                                                                *)
(***************************************************************************)
MillisModulus == 2^30

\* currentTime - timestamp of two unsigned long
Elapsed(currentTime, timestamp) == (currentTime - timestamp) % MillisModulus

ECDH_CACHE_SIZE == 8
ECDH_CACHE_TTL_MS == 300000
KEY_CACHE_SIZE == 6
KEY_CACHE_TTL_MS == 300000

\* fromHex(hex, bytes, size)
fromHex(hex) == [i \in 1..Len(hex) |-> HexVal(hex[i])]

\* toHex(bytes, size)
toHex(bytes) == [i \in 1..Len(bytes) |-> HexDigits[bytes[i] + 1]]

nullptr == [kind |-> "nullptr"]

\* PrivateKey(privateKeyBytes)
PrivateKey(bytes) == [kind |-> "PrivateKey", secret |-> bytes]

\* PublicKey(publicKeyBin): the bytes are the 02 marker and the x coordinate.
PublicKey(bytes) == [kind |-> "PublicKey", x |-> SubSeq(bytes, 3, Len(bytes))]

\* privateKey.ecdh(publicKey, sharedPointX, false)
ecdhPoint(privateKey, pubKey) == ecdh(toHex(privateKey.secret), toHex(pubKey.x))

\* initKeyCache / initECDHCache: the slots before their first use.
EmptyKeySlot ==
    [keyHex |-> <<>>, privateKey |-> nullptr, publicKey |-> nullptr,
     isPrivateKey |-> FALSE, timestamp |-> 0]
EmptyEcdhSlot ==
    [privateKeyHex |-> <<>>, publicKeyHex |-> <<>>, sharedSecret |-> {}, timestamp |-> 0]
initKeyCache == [i \in 1..KEY_CACHE_SIZE |-> EmptyKeySlot]
initECDHCache == [i \in 1..ECDH_CACHE_SIZE |-> EmptyEcdhSlot]

\* getCachedPrivateKey(keyHex) as it would be without the comparison of keyHex
getCachedPrivateKeyAnyHex(cache, keyHex, currentTime) ==
    LET hits == {i \in 1..KEY_CACHE_SIZE :
                    /\ cache[i].isPrivateKey
                    /\ cache[i].privateKey # nullptr
                    /\ Elapsed(currentTime, cache[i].timestamp) < KEY_CACHE_TTL_MS}
    IN  IF hits = {} THEN nullptr ELSE cache[SetMin(hits)].privateKey

\* getCachedPrivateKey(keyHex): the key of the first slot that matches, or nullptr
getCachedPrivateKey(cache, keyHex, currentTime) ==
    LET hits == {i \in 1..KEY_CACHE_SIZE :
                    /\ cache[i].keyHex = keyHex
                    /\ cache[i].isPrivateKey
                    /\ cache[i].privateKey # nullptr
                    /\ Elapsed(currentTime, cache[i].timestamp) < KEY_CACHE_TTL_MS}
    IN  IF hits = {} THEN nullptr ELSE cache[SetMin(hits)].privateKey

\* getCachedPublicKey(keyHex)
getCachedPublicKey(cache, keyHex, currentTime) ==
    LET hits == {i \in 1..KEY_CACHE_SIZE :
                    /\ cache[i].keyHex = keyHex
                    /\ ~cache[i].isPrivateKey
                    /\ cache[i].publicKey # nullptr
                    /\ Elapsed(currentTime, cache[i].timestamp) < KEY_CACHE_TTL_MS}
    IN  IF hits = {} THEN nullptr ELSE cache[SetMin(hits)].publicKey

\* storePrivateKeyInCache as it would be if it left the publicKey pointer of
\* the slot as it was
storePrivateKeyInCacheKeep(c, keyHex, privateKey, currentTime) ==
    [cache |-> [c.cache EXCEPT ![c.index + 1] =
                    [keyHex |-> keyHex, privateKey |-> privateKey,
                     publicKey |-> c.cache[c.index + 1].publicKey,
                     isPrivateKey |-> TRUE, timestamp |-> currentTime]],
     index |-> (c.index + 1) % KEY_CACHE_SIZE]

\* storePrivateKeyInCache(keyHex, privateKey): c is the cache with its index
storePrivateKeyInCache(c, keyHex, privateKey, currentTime) ==
    [cache |-> [c.cache EXCEPT ![c.index + 1] =
                    [keyHex |-> keyHex, privateKey |-> privateKey, publicKey |-> nullptr,
                     isPrivateKey |-> TRUE, timestamp |-> currentTime]],
     index |-> (c.index + 1) % KEY_CACHE_SIZE]

\* storePublicKeyInCache(keyHex, publicKey)
storePublicKeyInCache(c, keyHex, pubKey, currentTime) ==
    [cache |-> [c.cache EXCEPT ![c.index + 1] =
                    [keyHex |-> keyHex, privateKey |-> nullptr, publicKey |-> pubKey,
                     isPrivateKey |-> FALSE, timestamp |-> currentTime]],
     index |-> (c.index + 1) % KEY_CACHE_SIZE]

\* getECDHFromCache(privateKeyHex, publicKeyHex, sharedSecret) as it would be
\* if it never found a slot
getECDHFromCacheNever(cache, privateKeyHex, publicKeyHex, currentTime) ==
    [found |-> FALSE, sharedSecret |-> {}]

\* getECDHFromCache(privateKeyHex, publicKeyHex, sharedSecret)
getECDHFromCache(cache, privateKeyHex, publicKeyHex, currentTime) ==
    LET hits == {i \in 1..ECDH_CACHE_SIZE :
                    /\ cache[i].privateKeyHex = privateKeyHex
                    /\ cache[i].publicKeyHex = publicKeyHex
                    /\ Elapsed(currentTime, cache[i].timestamp) < ECDH_CACHE_TTL_MS}
    IN  IF hits = {} THEN [found |-> FALSE, sharedSecret |-> {}]
        ELSE [found |-> TRUE, sharedSecret |-> cache[SetMin(hits)].sharedSecret]

\* storeECDHInCache as it would be if it did not advance the index
storeECDHInCacheSame(c, privateKeyHex, publicKeyHex, sharedSecret, currentTime) ==
    [cache |-> [c.cache EXCEPT ![c.index + 1] =
                    [privateKeyHex |-> privateKeyHex, publicKeyHex |-> publicKeyHex,
                     sharedSecret |-> sharedSecret, timestamp |-> currentTime]],
     index |-> c.index]

\* storeECDHInCache(privateKeyHex, publicKeyHex, sharedSecret)
storeECDHInCache(c, privateKeyHex, publicKeyHex, sharedSecret, currentTime) ==
    [cache |-> [c.cache EXCEPT ![c.index + 1] =
                    [privateKeyHex |-> privateKeyHex, publicKeyHex |-> publicKeyHex,
                     sharedSecret |-> sharedSecret, timestamp |-> currentTime]],
     index |-> (c.index + 1) % ECDH_CACHE_SIZE]

\* The private key object of getNote, getCipherText and decryptNip04Ciphertext:
\* from the cache, or decoded from the hex string and stored.
privateKeyObject(kc, privateKeyHex, currentTime) ==
    LET cachedPrivateKey == getCachedPrivateKey(kc.cache, privateKeyHex, currentTime)
        decoded == PrivateKey(fromHex(privateKeyHex))
    IN  IF cachedPrivateKey # nullptr
        THEN [keys |-> kc, hit |-> TRUE, key |-> cachedPrivateKey]
        ELSE [keys |-> storePrivateKeyInCache(kc, privateKeyHex, decoded, currentTime),
              hit |-> FALSE, key |-> decoded]

\* The public key object of getCipherText and decryptNip04Ciphertext.
publicKeyObject(kc, pubKeyHex, currentTime) ==
    LET fullPubKeyHex == <<"0", "2">> \o pubKeyHex
        cachedPublicKey == getCachedPublicKey(kc.cache, fullPubKeyHex, currentTime)
        decoded == PublicKey(fromHex(fullPubKeyHex))
    IN  IF cachedPublicKey # nullptr
        THEN [keys |-> kc, hit |-> TRUE, key |-> cachedPublicKey]
        ELSE [keys |-> storePublicKeyInCache(kc, fullPubKeyHex, decoded, currentTime),
              hit |-> FALSE, key |-> decoded]

\* sharedPointX of getCipherText and of decryptNip04Ciphertext: both key
\* objects, then the shared secret from the ECDH cache or from the curve.
sharedPointX(kc, ec, privateKeyHex, pubKeyHex, currentTime) ==
    LET priv == privateKeyObject(kc, privateKeyHex, currentTime)
        pub == publicKeyObject(priv.keys, pubKeyHex, currentTime)
        cached == getECDHFromCache(ec.cache, privateKeyHex, pubKeyHex, currentTime)
        computed == ecdhPoint(priv.key, pub.key)
    IN  [keys |-> pub.keys,
         ecdhs |-> IF cached.found THEN ec
                   ELSE storeECDHInCache(ec, privateKeyHex, pubKeyHex, computed, currentTime),
         privateKey |-> priv.key, privHit |-> priv.hit,
         publicKey |-> pub.key, pubHit |-> pub.hit,
         found |-> cached.found,
         sharedSecret |-> IF cached.found THEN cached.sharedSecret ELSE computed]

(***************************************************************************)
(* Persistent store and start-up                                           *)
(***************************************************************************)
Absent == <<"(absent)">>

\* prefs.getString(key, default)
getString(p, key, default) == IF p[key] = Absent THEN default ELSE p[key]

\* What the configuration portal has stored on a configured device.
ConfiguredPrefs ==
    [relay_url |-> DefaultRelay, private_key |-> UserPriv, public_key |-> publicKey(UserPriv),
     user_private_key |-> Absent, user_public_key |-> Absent,
     dev_priv_key |-> Absent, dev_pub_key |-> Absent, auth_clients |-> Absent]

NoReq == [payload |-> "(none)", nip04 |-> FALSE, pubkey |-> <<>>, doc |-> NoDoc]
NoN4 == [msg |-> <<>>, cipher |-> <<>>, stale |-> <<>>, plain |-> <<>>]
NoCall == [op |-> "none", failed |-> FALSE, nullWrite |-> FALSE, crashed |-> FALSE,
           len |-> 0, marker |-> FALSE, success |-> FALSE]
NoLookup == [kind |-> "none", privHit |-> FALSE, privAge |-> 0, pubHit |-> FALSE, pubAge |-> 0,
             found |-> FALSE, ecdhAge |-> 0, wrapped |-> FALSE,
             priv |-> <<>>, pub |-> <<>>, ecdhSlot |-> 0]
\* keyN and ecdhN count the stores into each cache, keySeq and ecdhSeq tell
\* which store wrote each slot (0: none); the key object allocated for the
\* k-th store of the key cache has the number k, keyIds tells which objects
\* the two pointers of each slot point to, deleted which were deleted.
NoUptime ==
    [ms |-> 0, ticks |-> 0, idled |-> FALSE, others |-> 0,
     keyAt |-> [i \in 1..KEY_CACHE_SIZE |-> 0],
     ecdhAt |-> [i \in 1..ECDH_CACHE_SIZE |-> 0],
     keyN |-> 0, ecdhN |-> 0,
     keySeq |-> [i \in 1..KEY_CACHE_SIZE |-> 0],
     ecdhSeq |-> [i \in 1..ECDH_CACHE_SIZE |-> 0],
     keyIds |-> [i \in 1..KEY_CACHE_SIZE |-> [priv |-> 0, pub |-> 0]],
     deleted |-> <<>>,
     last |-> NoLookup]
NoHeap == [blocks |-> 0, bytes |-> 0, calls |-> 0, i |-> -1, initialHeap |-> 0, last |-> NoCall]
NoConn == [disconnects |-> 0, begun |-> FALSE, inflight |-> 0, step |-> [kind |-> "none"]]

\* The key pairs of the cache scenarios: the keys this device holds, and the
\* peers it talks to.
CachePrivs == <<UserPriv, DevicePriv, ThirdPriv>>
CachePubs == <<publicKey(ThirdPriv), publicKey(Key("a", "7")), publicKey(Key("b", "8"))>>
NumCachePairs == Len(CachePrivs) * Len(CachePubs)
CachePair(i) ==
    [priv |-> CachePrivs[((i - 1) \div Len(CachePubs)) + 1],
     pub |-> CachePubs[((i - 1) % Len(CachePubs)) + 1]]
CachePairs == {CachePair(i) : i \in 1..NumCachePairs}

\* drv before any derivation. known tells of the target pair when it was
\* last derived (at) and last stored (storedAt), with which secret, and which
\* pairs were stored since (between, sinceStore).
NeverDerived == [at |-> -1, secret |-> {}, between |-> {}, storedAt |-> -1, sinceStore |-> {}]
NoDrv ==
    [others |-> 0,
     last |-> [kind |-> "none"],
     known |-> NeverDerived]

\* The static variables of the signer before init().
PowerOn ==
    /\ secretKey = <<>>
    /\ userPrivateKeyHex = <<>> /\ userPublicKeyHex = <<>>
    /\ devicePrivateKeyHex = <<>> /\ devicePublicKeyHex = <<>>
    /\ relayUrl = <<>> /\ unixTimestamp = 0 /\ signer_initialized = FALSE
    /\ prevSecret = <<>> /\ sent = <<>> /\ keyOps = {}
    /\ millis = 0
    /\ keyCache = initKeyCache /\ keyCacheIndex = 0
    /\ ecdhCache = initECDHCache /\ ecdhCacheIndex = 0
    /\ drv = NoDrv
    /\ connection_in_progress = FALSE /\ reconnection_attempts = 0
    /\ last_reconnect_attempt = 0 /\ manual_reconnect_needed = FALSE
    /\ last_ws_message_received = 0 /\ wsConnected = FALSE /\ wifiConnected = FALSE
    /\ conn = NoConn
    /\ oldSecret = <<>>
    /\ heap = NoHeap
    /\ uptime = NoUptime
    /\ out = {}

Init ==
    /\ PowerOn
    /\ authorizedClients = <<>> /\ prevClients = <<>>
    /\ req = NoReq
    /\ n4 = NoN4
    /\ prefs = ConfiguredPrefs
    /\ pc = "off"

\* loadConfigFromPreferences: the user key, with the legacy "private_key" as
\* its fallback.
LoadedUserPrivateKey(p) ==
    LET k == getString(p, "user_private_key", <<>>)
    IN  IF Len(k) = 0 THEN getString(p, "private_key", <<>>) ELSE k

\* loadConfigFromPreferences as it would be if it generated a device key
\* whatever is stored
needsDeviceKeyAlways(stored) == TRUE

\* loadConfigFromPreferences: a device key is generated when the stored
\* dev_priv_key has not the length of a key
needsDeviceKey(stored) == Len(stored) # HexLen

\* loadConfigFromPreferences: the lines it writes to Serial that carry a value
\* read from the preferences, stored being dev_priv_key as read.
loadConfigSerial(stored) ==
    {[channel |-> "Serial",
      text |-> <<"RemoteSigner: Loaded devicePrivateKeyHex: ">> \o stored]}
    \cup (IF needsDeviceKey(stored) THEN {}
          ELSE {[channel |-> "Serial",
                 text |-> <<"devicePrivateKeyHex loaded from prefs: ">> \o stored]})

\* init(): loadConfigFromPreferences, then refreshSecretKey. devices are the
\* keys generateDeviceKeypair can come up with.
initWith(devices) ==
    \E newSecret \in Secrets, newDevice \in devices :
        LET upriv == LoadedUserPrivateKey(prefs)
            stored == getString(prefs, "dev_priv_key", <<>>)
            dpriv == IF needsDeviceKey(stored) THEN newDevice ELSE stored
        IN  /\ relayUrl' = getString(prefs, "relay_url", DefaultRelay)
            /\ userPrivateKeyHex' = upriv
            /\ userPublicKeyHex' = IF Len(upriv) = HexLen THEN publicKey(upriv) ELSE <<>>
            /\ devicePrivateKeyHex' = dpriv
            /\ devicePublicKeyHex' = publicKey(dpriv)
            /\ prefs' = IF needsDeviceKey(stored)
                        THEN [prefs EXCEPT !.dev_priv_key = dpriv, !.dev_pub_key = publicKey(dpriv)]
                        ELSE prefs
            /\ authorizedClients' = getString(prefs, "auth_clients", <<>>)
            /\ secretKey' = newSecret
            /\ signer_initialized' = TRUE
            /\ unixTimestamp' = 0
            /\ req' = NoReq /\ sent' = <<>> /\ keyOps' = {}
            /\ prevClients' = getString(prefs, "auth_clients", <<>>)
            /\ prevSecret' = newSecret
            /\ pc' = "run"
            /\ out' = loadConfigSerial(stored)
            /\ UNCHANGED n4

init == initWith({DevicePriv})

\* init() after a restart
Boot == init /\ UNCHANGED bootVars

(***************************************************************************)
(* Relay frames                                                            *)
(***************************************************************************)
Rnd(iv, stale, junk) == [iv |-> iv, stale |-> stale, junk |-> junk]
Rnd1 == Rnd("iv1", <<NUL, NUL>>, <<NUL>>)
Rnds == {Rnd1, Rnd("iv1", <<"g", "g">>, <<"g">>), Rnd("iv1", <<"g", NUL>>, <<"g">>)}

\* The kind-24133 event a client sends: its pubkey, and the payload encrypted
\* to toPub under NIP-04 or NIP-44.
ClientFrame(clientPriv, nip04, payload, toPub, iv) ==
    [json |-> TRUE, pubkey |-> publicKey(clientPriv),
     content |-> IF nip04 THEN getCipherText(clientPriv, toPub, payload, iv)
                 ELSE executeEncryptMessageNip44(payload, clientPriv, toPub)]

\* websocketEvent(WStype_TEXT) -> handleWebsocketMessage -> handleSigningRequestEvent
\* for one frame, whose payload is the document d ("doc"), text that is no
\* JSON ("notjson"), or is encrypted to another key ("undecryptable"); or for
\* a frame whose own text does not deserialize ("badframe"). at tells the
\* scenario where it is after the frame.
DeliverAt(clientPriv, nip04, payload, d, rnd, at) ==
    LET st == [clients |-> authorizedClients, secretKey |-> secretKey,
               userPriv |-> userPrivateKeyHex, userPub |-> userPublicKeyHex,
               devPriv |-> devicePrivateKeyHex, devPub |-> devicePublicKeyHex,
               now |-> unixTimestamp]
        text == IF payload = "notjson" THEN <<"g", "g">> ELSE serializeJson(d)
        toPub == IF payload = "undecryptable" THEN publicKey(ThirdPriv)
                 ELSE devicePublicKeyHex
        frame == [ClientFrame(clientPriv, nip04, text, toPub, rnd.iv)
                  EXCEPT !.json = payload # "badframe"]
    IN  /\ signer_initialized
        /\ \E e \in {handleSigningRequestEvent(frame, st, rnd, {d})} :
              /\ authorizedClients' = e.clients
              /\ prefs' = IF e.save
                          THEN SavedPrefs(prefs, relayUrl, userPrivateKeyHex, userPublicKeyHex, e.clients)
                          ELSE prefs
              /\ sent' = e.sent
              /\ keyOps' = e.ops
        /\ req' = [payload |-> payload, nip04 |-> nip04, pubkey |-> publicKey(clientPriv),
                   doc |-> IF payload = "doc" THEN d ELSE NoDoc]
        /\ prevClients' = authorizedClients
        /\ prevSecret' = secretKey
        /\ pc' = at
        /\ UNCHANGED <<secretKey, userPrivateKeyHex, userPublicKeyHex, devicePrivateKeyHex,
                       devicePublicKeyHex, relayUrl, unixTimestamp, signer_initialized, n4,
                       auxVars>>

Deliver(clientPriv, nip04, payload, d, rnd) == DeliverAt(clientPriv, nip04, payload, d, rnd, pc)

Id1 == <<"1">>
Ids == {Id1, <<"4", "2">>}
Hi == <<"h", "i">>

\* params[1] of a connect: the secret, the secret inside white space, the
\* secret of another boot, nothing.
SecretCandidates == {secretKey, <<" ">> \o secretKey \o <<"\n">>, <<>>} \cup Secrets

Connect ==
    \E c \in ClientPrivs, nip04 \in BOOLEAN, s \in SecretCandidates :
        Deliver(c, nip04, "doc", Doc(Id1, "connect", <<devicePublicKeyHex, s>>), Rnd1)

SignEvent ==
    \E c \in ClientPrivs, nip04 \in BOOLEAN,
       ev \in {serializeJson(x) : x \in EventDocs} \cup {<<"g">>} :
        Deliver(c, nip04, "doc", Doc(Id1, "sign_event", <<ev>>), Rnd1)

Ping ==
    \E c \in ClientPrivs, nip04 \in BOOLEAN, id \in Ids :
        Deliver(c, nip04, "doc", Doc(id, "ping", <<>>), Rnd1)

GetPublicKey ==
    \E c \in ClientPrivs, nip04 \in BOOLEAN :
        Deliver(c, nip04, "doc", Doc(Id1, "get_public_key", <<>>), Rnd1)

Nip04Encrypt ==
    \E c \in ClientPrivs, nip04 \in BOOLEAN :
        Deliver(c, nip04, "doc", Doc(Id1, "nip04_encrypt", <<publicKey(ThirdPriv), Hi>>), Rnd1)

Nip04Decrypt ==
    \E c \in ClientPrivs, nip04 \in BOOLEAN, marker \in BOOLEAN, rnd \in Rnds :
        \E ct \in {[getCipherText(ThirdPriv, userPublicKeyHex, Hi, "iv2") EXCEPT !.marker = marker]} :
            Deliver(c, nip04, "doc", Doc(Id1, "nip04_decrypt", <<publicKey(ThirdPriv), ct>>), rnd)

Nip44Encrypt ==
    \E c \in ClientPrivs, nip04 \in BOOLEAN :
        Deliver(c, nip04, "doc", Doc(Id1, "nip44_encrypt", <<publicKey(ThirdPriv), Hi>>), Rnd1)

Nip44Decrypt ==
    \E c \in ClientPrivs, nip04 \in BOOLEAN, to \in {userPublicKeyHex, devicePublicKeyHex} :
        \E ct \in {executeEncryptMessageNip44(Hi, ThirdPriv, to)} :
            Deliver(c, nip04, "doc", Doc(Id1, "nip44_decrypt", <<publicKey(ThirdPriv), ct>>), Rnd1)

\* A frame the dispatcher drops: it does not decrypt, is no JSON, or names a
\* method the signer does not know.
Dropped ==
    \E c \in ClientPrivs, nip04 \in BOOLEAN, rnd \in Rnds :
        \/ Deliver(c, nip04, "undecryptable", Doc(Id1, "ping", <<>>), rnd)
        \/ Deliver(c, nip04, "notjson", NoDoc, rnd)
        \/ Deliver(c, nip04, "badframe", NoDoc, rnd)
        \/ Deliver(c, nip04, "doc", Doc(Id1, "describe", <<>>), rnd)

Epoch == 1700000100

\* processLoop: the clock is read from the time client.
UpdateTime ==
    /\ signer_initialized
    /\ unixTimestamp' = Epoch
    /\ UNCHANGED <<authorizedClients, prefs, secretKey, userPrivateKeyHex, userPublicKeyHex,
                   devicePrivateKeyHex, devicePublicKeyHex, req, prevClients, prevSecret,
                   sent, keyOps, relayUrl, signer_initialized, pc, n4, auxVars>>

Next ==
    \/ Boot
    \/ UpdateTime
    \/ Connect
    \/ SignEvent
    \/ Ping
    \/ GetPublicKey
    \/ Nip04Encrypt
    \/ Nip04Decrypt
    \/ Nip44Encrypt
    \/ Nip44Decrypt
    \/ Dropped

Spec == Init /\ [][Next]_vars

(***************************************************************************)
(* Frames delivered again (specification SpecReplay)                       *)
(*                                                                         *)
(* The relay delivers a request event and may deliver the same event, with *)
(* the same id, again. pc is "first" after a frame that the step before    *)
(* did not deliver and "again" after one that it did.                      *)
(***************************************************************************)
\* The same frame bytes, and so the same event id, as the frame before.
Replayed(clientPriv, nip04, d) ==
    IF /\ pc \in {"first", "again"}
       /\ req = [payload |-> "doc", nip04 |-> nip04, pubkey |-> publicKey(clientPriv), doc |-> d]
    THEN "again" ELSE "first"

ReplayConnect ==
    \E c \in ClientPrivs, nip04 \in BOOLEAN, s \in SecretCandidates :
        LET d == Doc(Id1, "connect", <<devicePublicKeyHex, s>>)
        IN  DeliverAt(c, nip04, "doc", d, Rnd1, Replayed(c, nip04, d))

ReplaySignEvent ==
    \E c \in ClientPrivs, nip04 \in BOOLEAN, ev \in {serializeJson(x) : x \in EventDocs} :
        LET d == Doc(Id1, "sign_event", <<ev>>)
        IN  DeliverAt(c, nip04, "doc", d, Rnd1, Replayed(c, nip04, d))

NextReplay ==
    \/ Boot
    \/ ReplayConnect
    \/ ReplaySignEvent

SpecReplay == Init /\ [][NextReplay]_vars

\* C37: a request event is acted on at most once: the frame that is delivered
\* again, with the same event id, produces no signature, no change of the
\* list and no response.
C37_ActedOnAtMostOnce ==
    pc = "again" => /\ sent = <<>>
                    /\ \A o \in keyOps : o.op # "sign_event"
                    /\ authorizedClients = prevClients

(***************************************************************************)
(* The device that was never configured (specification SpecUnkeyed)        *)
(*                                                                         *)
(* The preferences are empty: init() finds no user key, generates the      *)
(* device key pair and takes the default relay; app.cpp connects to it as  *)
(* soon as WiFi is up. Clients connect and send requests.                  *)
(***************************************************************************)
FreshPrefs == [k \in DOMAIN ConfiguredPrefs |-> Absent]

InitUnkeyed ==
    /\ PowerOn
    /\ authorizedClients = <<>> /\ prevClients = <<>>
    /\ req = NoReq
    /\ n4 = NoN4
    /\ prefs = FreshPrefs
    /\ pc = "off"

NextUnkeyed ==
    \/ Boot
    \/ Connect
    \/ SignEvent
    \/ Nip04Encrypt
    \/ Nip44Encrypt

SpecUnkeyed == InitUnkeyed /\ [][NextUnkeyed]_vars

(***************************************************************************)
(* The authorized-client list at its capacity (specification SpecCap)      *)
(*                                                                         *)
(* The list starts with any number of clients up to the capacity and       *)
(* addAuthorizedClient is called twice, with any pubkey of the pool.       *)
(***************************************************************************)
NumCapKeys == 32

CapAlphabet == <<"a", "b", "c", "d", "e", "f">>

\* The i-th pubkey of the pool.
CapKey(i) == Key(CapAlphabet[((i - 1) \div 6) + 1], CapAlphabet[((i - 1) % 6) + 1])

\* The list after CapKey(1) .. CapKey(n) were added to the empty list.
RECURSIVE FirstClients(_)
FirstClients(n) ==
    IF n = 0 THEN <<>> ELSE addAuthorizedClient(FirstClients(n - 1), CapKey(n))

InitCap ==
    /\ PowerOn
    /\ \E n \in 0..MAX_AUTHORIZED_CLIENTS :
        /\ authorizedClients = FirstClients(n)
        /\ prevClients = FirstClients(n)
        /\ prefs = [ConfiguredPrefs EXCEPT !.auth_clients = FirstClients(n)]
    /\ req = NoReq
    /\ n4 = NoN4
    /\ pc = "start"

\* One call of addAuthorizedClient, with the save it ends with.
AddClient ==
    \E i \in 1..NumCapKeys :
        /\ pc \in {"start", "once"}
        /\ pc' = IF pc = "start" THEN "once" ELSE "twice"
        /\ authorizedClients' = addAuthorizedClient(authorizedClients, CapKey(i))
        /\ prefs' = IF indexOf(authorizedClients, CapKey(i)) = -1
                    THEN SavedPrefs(prefs, relayUrl, userPrivateKeyHex, userPublicKeyHex,
                                    addAuthorizedClient(authorizedClients, CapKey(i)))
                    ELSE prefs
        /\ prevClients' = authorizedClients
        /\ req' = [NoReq EXCEPT !.payload = "add", !.pubkey = CapKey(i)]
        /\ UNCHANGED <<secretKey, userPrivateKeyHex, userPublicKeyHex, devicePrivateKeyHex,
                       devicePublicKeyHex, prevSecret, sent, keyOps, relayUrl, unixTimestamp,
                       signer_initialized, n4, auxVars>>

NextCap == AddClient

SpecCap == InitCap /\ [][NextCap]_vars

(***************************************************************************)
(* The NIP-04 round trip (specification SpecNip04)                         *)
(*                                                                         *)
(* n4 holds a message, its cipher text, the bytes found behind the decoded *)
(* cipher text, and the text decrypted from it.                            *)
(***************************************************************************)
MaxMsgLen == 33

Rep(c, n) == [i \in 1..n |-> c]

Messages ==
    UNION {{Rep("a", n), Rep("a", n - 1) \o <<" ">>, <<"\n">> \o Rep("a", n - 1)} :
            n \in 1..MaxMsgLen}

InitNip04 ==
    /\ PowerOn
    /\ authorizedClients = <<>> /\ prevClients = <<>>
    /\ req = NoReq
    /\ prefs = ConfiguredPrefs
    /\ \E m \in Messages : n4 = [NoN4 EXCEPT !.msg = m]
    /\ pc = "message"

Nip04Rest ==
    UNCHANGED <<authorizedClients, prefs, secretKey, userPrivateKeyHex, userPublicKeyHex,
                devicePrivateKeyHex, devicePublicKeyHex, req, prevClients, prevSecret,
                sent, keyOps, relayUrl, unixTimestamp, signer_initialized, auxVars>>

\* getCipherText(priv, pub, m) under a fresh iv
Nip04Seal ==
    \E iv \in {"iv1", "iv2"} :
        /\ pc = "message"
        /\ pc' = "cipher"
        /\ n4' = [n4 EXCEPT !.cipher = getCipherText(UserPriv, publicKey(ThirdPriv), n4.msg, iv)]
        /\ Nip04Rest

\* decryptNip04Ciphertext(cipherText, priv, pub)
Nip04Open ==
    \E stale \in {r.stale : r \in Rnds} :
        /\ pc = "cipher"
        /\ pc' = "plain"
        /\ n4' = [n4 EXCEPT !.stale = stale,
                            !.plain = decryptNip04Ciphertext(n4.cipher, UserPriv,
                                          publicKey(ThirdPriv), stale, <<"g">>)]
        /\ Nip04Rest

NextNip04 ==
    \/ Nip04Seal
    \/ Nip04Open

SpecNip04 == InitNip04 /\ [][NextNip04]_vars

(***************************************************************************)
(* Properties of the dispatcher (specification Spec)                       *)
(*                                                                         *)
(* req is the last frame delivered, prevClients and prevSecret the client  *)
(* list and the session secret when it arrived, sent the frames its        *)
(* handling wrote to the socket, keyOps the private-key operations it ran. *)
(***************************************************************************)
\* The entries of a "|"-separated list, in order.
RECURSIVE Entries(_)
Entries(list) ==
    IF Len(list) = 0 THEN <<>>
    ELSE LET bars == {i \in 1..Len(list) : list[i] = "|"}
         IN  IF bars = {} THEN <<list>>
             ELSE <<SubSeq(list, 1, SetMin(bars) - 1)>>
                  \o Entries(SubSeq(list, SetMin(bars) + 1, Len(list)))

Listed(list, P) == \E i \in 1..Len(Entries(list)) : Entries(list)[i] = P

ClientPrivOf(P) == CHOOSE k \in ClientPrivs : publicKey(k) = P

\* What the requester P reads in a NIP-44 response event f.
Opened(f, P) == executeDecryptMessageNip44(f.content, ClientPrivOf(P), f.pubkey)

IsRequest(method) == req.payload = "doc" /\ req.doc.method = method

KnownMethods ==
    {"connect", "sign_event", "ping", "get_public_key", "nip04_encrypt", "nip04_decrypt",
     "nip44_encrypt", "nip44_decrypt"}

\* C1: a connect that decrypts and parses, from a pubkey P outside the
\* authorized-client list, with params[1] equal to the session secret, leaves
\* P in the list (isClientAuthorized(P) holds), and P was not in it before.
C1_ConnectWithSecretAuthorizes ==
    (/\ IsRequest("connect")
     /\ req.doc.params[2] = prevSecret
     /\ ~Listed(prevClients, req.pubkey))
    => /\ Listed(authorizedClients, req.pubkey)
       /\ isClientAuthorized(authorizedClients, req.pubkey)
       /\ ~isClientAuthorized(prevClients, req.pubkey)

C1_Witness ==
    /\ IsRequest("connect")
    /\ req.doc.params[2] = prevSecret
    /\ ~Listed(prevClients, req.pubkey)
    /\ Listed(authorizedClients, req.pubkey)
    /\ Len(Entries(prevClients)) = 1

\* C2: a request for sign_event, ping, get_public_key, nip04_encrypt,
\* nip04_decrypt, nip44_encrypt or nip44_decrypt from a pubkey outside the
\* authorized-client list puts no frame on the WebSocket.
C2_UnauthorizedGetsNoFrame ==
    (/\ req.payload = "doc"
     /\ req.doc.method \in KnownMethods \ {"connect"}
     /\ ~Listed(prevClients, req.pubkey))
    => sent = <<>>

C2_Witness ==
    /\ IsRequest("sign_event")
    /\ req.doc.params[1] \in {serializeJson(x) : x \in EventDocs}
    /\ ~Listed(prevClients, req.pubkey)
    /\ Len(Entries(prevClients)) = 1
    /\ sent = <<>>

\* C4: every response is encrypted with the scheme its request arrived
\* under: NIP-04 for a request carrying the "?iv=" marker, NIP-44 otherwise.
C4_ResponseUsesRequestScheme ==
    \A i \in 1..Len(sent) :
        sent[i].content.scheme = (IF req.nip04 THEN "nip04" ELSE "nip44")

TransportOps == {"decrypt_request", "encrypt_response", "sign_response"}
UserOps == {"sign_event", "nip04_encrypt", "nip04_decrypt", "nip44_encrypt", "nip44_decrypt"}

\* C5: requests are decrypted, and responses encrypted and signed, with the
\* device private key only, and a response's pubkey field is the device
\* pubkey; sign_event and the nip04/nip44 methods use the user private key
\* only; get_public_key answers with the user public key.
C5_KeyRoles ==
    /\ \A o \in keyOps :
        /\ o.op \in TransportOps => o.key = devicePrivateKeyHex
        /\ o.op \in UserOps => o.key = userPrivateKeyHex
    /\ \A i \in 1..Len(sent) :
        /\ sent[i].pubkey = devicePublicKeyHex
        /\ sent[i].content.key = ecdh(devicePrivateKeyHex, req.pubkey)
        /\ sent[i].sig = schnorr_sign(devicePrivateKeyHex, sent[i].id)
    /\ (IsRequest("get_public_key") /\ sent # <<>>)
        => Opened(sent[1], req.pubkey)
           = <<"{", Q, "i", "d", Q, ":", Q>> \o req.doc.id
             \o <<Q, ",", Q, "r", "e", "s", "u", "l", "t", Q, ":", Q>>
             \o userPublicKeyHex \o <<Q, "}">>

C5_Witness ==
    /\ IsRequest("get_public_key")
    /\ Len(sent) = 1
    /\ {o.op : o \in keyOps} = TransportOps
    /\ devicePrivateKeyHex # userPrivateKeyHex

\* C6: a ping with id I from an authorized pubkey P puts exactly one event
\* on the socket: kind 24133, pubkey the device pubkey, tags [["p", P]],
\* and decrypting its content gives {"id":I,"result":"pong"}.
C6_PingAnsweredWithPong ==
    (IsRequest("ping") /\ Listed(prevClients, req.pubkey))
    => /\ Len(sent) = 1
       /\ sent[1].type = "EVENT"
       /\ sent[1].kind = 24133
       /\ sent[1].pubkey = devicePublicKeyHex
       /\ sent[1].tags = <<<<"p", req.pubkey>>>>
       /\ Opened(sent[1], req.pubkey)
          = <<"{", Q, "i", "d", Q, ":", Q>> \o req.doc.id
            \o <<Q, ",", Q, "r", "e", "s", "u", "l", "t", Q, ":", Q, "p", "o", "n", "g", Q, "}">>

C6_Witness ==
    /\ IsRequest("ping")
    /\ Listed(prevClients, req.pubkey)
    /\ req.doc.id = <<"4", "2">>
    /\ Len(sent) = 1
    /\ unixTimestamp = Epoch

\* The JSON string escaping of a text.
JsonEscape(text) ==
    replace(replace(replace(replace(replace(text, BS, <<BS, BS>>), Q, <<BS, Q>>),
                            "\n", <<BS, "n">>), "\r", <<BS, "r">>), "\t", <<BS, "t">>)

SignableParams == {serializeJson(x) : x \in EventDocs}

\* The event of params[0], signed under the user key pair.
ExpectedSignedEvent ==
    LET ev == CHOOSE x \in EventDocs : serializeJson(x) = req.doc.params[1]
        content == JsonEscape(ev.content)
        id == sha256Hex(NoteArray(userPublicKeyHex, ev.created_at, ev.kind, ev.tags, content))
    IN  NoteObject(id, userPublicKeyHex, ev.created_at, ev.kind, ev.tags, content,
                   schnorr_sign(userPrivateKeyHex, id))

\* C7: for an authorized sign_event whose params[0] parses, the event
\* returned has the user pubkey, the kind, created_at, tags and content of
\* params[0], as id the SHA-256 of [0,pubkey,created_at,kind,tags,content]
\* over those values, and as sig the Schnorr signature of the id under the
\* user private key.
C7_SignedEventIsTheRequestedEvent ==
    (/\ IsRequest("sign_event")
     /\ req.doc.params[1] \in SignableParams
     /\ Listed(prevClients, req.pubkey))
    => /\ Len(sent) = 1
       /\ Opened(sent[1], req.pubkey)
          = <<"{", Q, "i", "d", Q, ":", Q>> \o req.doc.id
            \o <<Q, ",", Q, "r", "e", "s", "u", "l", "t", Q, ":", Q>>
            \o JsonEscape(ExpectedSignedEvent) \o <<Q, "}">>

\* The character a JSON escape \c stands for (RFC 8259, without \u).
UnescapeChar ==
    [c \in {Q, BS, "/", "b", "f", "n", "r", "t"} |->
        CASE c = "b" -> "x08" [] c = "f" -> "x0c" [] c = "n" -> "\n"
          [] c = "r" -> "\r" [] c = "t" -> "\t" [] OTHER -> c]

\* text[i] follows an odd number of backslashes: it is the second character
\* of an escape.
Escaped(text, i) ==
    LET before == {j \in 1..(i - 1) : text[j] # BS}
        last == IF before = {} THEN 0 ELSE CHOOSE j \in before : \A k \in before : k <= j
    IN  (i - 1 - last) % 2 = 1

\* The decoded characters of text[lo..hi].
RECURSIVE Unescaped(_, _, _)
Unescaped(text, lo, hi) ==
    IF lo > hi THEN <<>>
    ELSE IF lo = hi
         THEN IF Escaped(text, lo)
              THEN <<IF text[lo] \in DOMAIN UnescapeChar THEN UnescapeChar[text[lo]] ELSE text[lo]>>
              ELSE IF text[lo] = BS THEN <<>> ELSE <<text[lo]>>
    ELSE Unescaped(text, lo, (lo + hi) \div 2) \o Unescaped(text, ((lo + hi) \div 2) + 1, hi)

\* JSON-decoding of the string whose first character (after its opening
\* quote) is text[1]: its value up to the closing quote, ok when there is one
\* and every escape is one of JSON.
JsonString(text) ==
    LET quotes == {i \in 1..Len(text) : text[i] = Q /\ ~Escaped(text, i)}
        close == SetMin(quotes)
    IN  IF quotes = {} THEN [ok |-> FALSE, value |-> <<>>]
        ELSE [ok |-> \A i \in 1..(close - 1) :
                        Escaped(text, i) => text[i] \in DOMAIN UnescapeChar,
              value |-> Unescaped(text, 1, close - 1)]

\* The decoded string member of a JSON text that follows the first key.
Member(text, key) ==
    IF indexOf(text, key) = -1 THEN [ok |-> FALSE, value |-> <<>>]
    ELSE JsonString(substringFrom(text, indexOf(text, key) + Len(key)))

\* C39: for every content, with backslash or double quote too, JSON-decoding
\* the content of the signed event gives the content of params[0], also after
\* the event went into the response as its result string.
C39_ContentSurvivesSigning ==
    (/\ IsRequest("sign_event")
     /\ req.doc.params[1] \in SignableParams
     /\ Listed(prevClients, req.pubkey)
     /\ Len(sent) = 1)
    => LET ev == CHOOSE x \in EventDocs : serializeJson(x) = req.doc.params[1]
           result == Member(Opened(sent[1], req.pubkey),
                            <<Q, "r", "e", "s", "u", "l", "t", Q, ":", Q>>)
           content == Member(result.value,
                             <<Q, "c", "o", "n", "t", "e", "n", "t", Q, ":", Q>>)
       IN  /\ result.ok
           /\ content.ok
           /\ content.value = ev.content

\* C40: while no user private key of the length of a key is configured, a
\* sign_event, nip04_encrypt or nip44_encrypt request of an authorized client
\* runs no signature and no encryption with the user key and gets no
\* response.
C40_NoUserKeyNoSignature ==
    (/\ Len(userPrivateKeyHex) # HexLen
     /\ req.payload = "doc"
     /\ req.doc.method \in {"sign_event", "nip04_encrypt", "nip44_encrypt"}
     /\ Listed(prevClients, req.pubkey))
    => /\ sent = <<>>
       /\ \A o \in keyOps : o.op \notin {"sign_event", "nip04_encrypt", "nip44_encrypt"}

\* The pubkeys the last request added to the list.
Entered == {P \in ClientPubKeys : Listed(authorizedClients, P) /\ ~Listed(prevClients, P)}

\* C8 as stated: a pubkey enters the list only by a connect whose params[1]
\* is exactly the session secret; a connect with another params[1], from a
\* pubkey not listed, leaves the list as it was and sends nothing.
C8_ExactSecretOnly ==
    /\ \A P \in Entered :
        IsRequest("connect") /\ req.pubkey = P /\ req.doc.params[2] = prevSecret
    /\ (/\ IsRequest("connect")
        /\ req.doc.params[2] # prevSecret
        /\ ~Listed(prevClients, req.pubkey))
       => authorizedClients = prevClients /\ sent = <<>>

\* C8 amended: a pubkey enters the list only by a connect whose params[1],
\* with its leading and trailing white space removed, is the session secret;
\* a connect whose trimmed params[1] is not the secret, from a pubkey not
\* listed, leaves the list as it was and sends nothing.
C8_TrimmedSecretOnly ==
    /\ \A P \in Entered :
        IsRequest("connect") /\ req.pubkey = P /\ trim(req.doc.params[2]) = prevSecret
    /\ (/\ IsRequest("connect")
        /\ trim(req.doc.params[2]) # prevSecret
        /\ ~Listed(prevClients, req.pubkey))
       => authorizedClients = prevClients /\ sent = <<>>

C8_Witness ==
    /\ IsRequest("connect")
    /\ req.doc.params[2] # prevSecret
    /\ trim(req.doc.params[2]) = prevSecret
    /\ Entered = {req.pubkey}
    /\ Len(sent) = 1

\* The last frame did not decrypt, was no JSON, was a sign_event whose
\* params[0] does not parse, or named an unknown method.
FailedRequest ==
    \/ req.payload \in {"undecryptable", "notjson"}
    \/ IsRequest("sign_event") /\ req.doc.params[1] \notin SignableParams
    \/ req.payload = "doc" /\ req.doc.method \notin KnownMethods

\* C9: when the content does not decrypt, the decrypted text is no JSON,
\* params[0] of a sign_event does not parse or the method is not one of the
\* eight, no frame is sent and the client list and the session secret stay
\* as they were.
C9_FailedRequestChangesNothing ==
    FailedRequest
    => sent = <<>> /\ authorizedClients = prevClients /\ secretKey = prevSecret

C9_Witness ==
    /\ IsRequest("sign_event")
    /\ req.doc.params[1] \notin SignableParams
    /\ Listed(prevClients, req.pubkey)
    /\ sent = <<>>
    /\ authorizedClients = prevClients

(***************************************************************************)
(* Properties of the client list at capacity (specification SpecCap)       *)
(***************************************************************************)
\* C3: the list never holds more than MAX_AUTHORIZED_CLIENTS (30) entries;
\* adding a pubkey that is not in a full list removes exactly the entry that
\* was inserted first, keeps the other 29 in their order and puts the new
\* pubkey last.
C3_CapacityAndOldestEvicted ==
    /\ Len(Entries(authorizedClients)) <= MAX_AUTHORIZED_CLIENTS
    /\ (/\ req.payload = "add"
        /\ Len(Entries(prevClients)) = MAX_AUTHORIZED_CLIENTS
        /\ ~Listed(prevClients, req.pubkey))
       => Entries(authorizedClients) = Tail(Entries(prevClients)) \o <<req.pubkey>>

C3_Witness ==
    /\ pc = "twice"
    /\ req.payload = "add"
    /\ Len(Entries(prevClients)) = MAX_AUTHORIZED_CLIENTS
    /\ ~Listed(prevClients, req.pubkey)
    /\ Entries(prevClients)[1] = CapKey(2)
    /\ Len(Entries(authorizedClients)) = MAX_AUTHORIZED_CLIENTS

\* C21: the authorized-client list never holds the same pubkey twice, and
\* addAuthorizedClient with a pubkey that is already listed changes neither
\* the list in memory nor the persistent store.
C21_NoDuplicateClients ==
    /\ [](\E e \in {Entries(authorizedClients)} :
            Cardinality({e[i] : i \in 1..Len(e)}) = Len(e))
    /\ [][(req'.payload = "add" /\ Listed(authorizedClients, req'.pubkey))
            => (authorizedClients' = authorizedClients /\ prefs' = prefs)]_vars

\* A pubkey of a full list was added again.
C21_Witness ==
    /\ req.payload = "add"
    /\ Listed(prevClients, req.pubkey)
    /\ Len(Entries(prevClients)) = MAX_AUTHORIZED_CLIENTS
    /\ authorizedClients = prevClients
    /\ prefs.auth_clients = prevClients

(***************************************************************************)
(* Properties of the NIP-04 round trip (specification SpecNip04)           *)
(***************************************************************************)
\* C10: for every plaintext m of 1 to 4096 bytes, decrypting the NIP-04
\* cipher text of m under the same keys gives m exactly: the padding is
\* removed and nothing else is added or stripped.
C10_Nip04RoundTripExact ==
    pc = "plain" => n4.plain = n4.msg

IsPrefix(a, b) == Len(a) <= Len(b) /\ SubSeq(b, 1, Len(a)) = a

\* C11: for every message, decrypting its NIP-04 cipher text under the same
\* key pair gives a non-empty text that agrees with the message on their
\* common prefix: one of the two is a prefix of the other.
C11_Nip04RoundTripPrefix ==
    pc = "plain"
    => /\ Len(n4.plain) > 0
       /\ IsPrefix(n4.msg, n4.plain) \/ IsPrefix(n4.plain, n4.msg)

(***************************************************************************)
(* The caches at work (specification SpecCache)                            *)
(*                                                                         *)
(* One pair of keys, the target, is derived at any time; the other pairs   *)
(* are derived one after the other, round and round; getNote takes the     *)
(* private key of the target; the clock advances by half the TTL.          *)
(***************************************************************************)
MaxOthers == 8
MaxTicks == 2

TickMs == ECDH_CACHE_TTL_MS \div 2

TargetPair == CachePair(1)
OtherPair(k) == CachePair(((k - 1) % (NumCachePairs - 1)) + 2)

InitCache ==
    /\ PowerOn
    /\ authorizedClients = <<>> /\ prevClients = <<>>
    /\ req = NoReq
    /\ n4 = NoN4
    /\ prefs = ConfiguredPrefs
    /\ pc = "cache"

CacheRest ==
    UNCHANGED <<authorizedClients, prefs, secretKey, userPrivateKeyHex, userPublicKeyHex,
                devicePrivateKeyHex, devicePublicKeyHex, req, prevClients, prevSecret,
                sent, keyOps, relayUrl, unixTimestamp, signer_initialized, pc, n4, connVars,
                oldSecret, heap, uptime, out>>

\* The key and secret derivation of getCipherText or decryptNip04Ciphertext
\* for pair p, and what the history keeps of it.
Derive(p, fresh) ==
    /\ \E r \in {sharedPointX([cache |-> keyCache, index |-> keyCacheIndex],
                              [cache |-> ecdhCache, index |-> ecdhCacheIndex],
                              p.priv, p.pub, millis)} :
          /\ keyCache' = r.keys.cache
          /\ keyCacheIndex' = r.keys.index
          /\ ecdhCache' = r.ecdhs.cache
          /\ ecdhCacheIndex' = r.ecdhs.index
          /\ drv' = [others |-> drv.others + fresh,
                     last |-> [kind |-> "ecdh", priv |-> p.priv, pub |-> p.pub, at |-> millis,
                               found |-> r.found, sharedSecret |-> r.sharedSecret,
                               privHit |-> r.privHit, privateKey |-> r.privateKey,
                               pubHit |-> r.pubHit, publicKey |-> r.publicKey,
                               prev |-> IF p = TargetPair THEN drv.known ELSE NeverDerived],
                     known |-> IF p = TargetPair
                               THEN [at |-> millis, secret |-> r.sharedSecret,
                                     between |-> {},
                                     storedAt |-> IF r.found THEN drv.known.storedAt
                                                  ELSE millis,
                                     sinceStore |-> IF r.found THEN drv.known.sinceStore
                                                    ELSE {}]
                               ELSE IF r.found \/ drv.known.at < 0 THEN drv.known
                               ELSE [drv.known EXCEPT !.between = @ \cup {p},
                                                      !.sinceStore = @ \cup {p}]]
    /\ UNCHANGED millis
    /\ CacheRest

DeriveTarget == Derive(TargetPair, 0)

DeriveOther ==
    /\ drv.others < MaxOthers
    /\ Derive(OtherPair(drv.others + 1), 1)

\* getNote(privateKeyHex, ...) for the private key of the target pair: the
\* private key object it signs with.
Note ==
    /\ \E r \in {privateKeyObject([cache |-> keyCache, index |-> keyCacheIndex],
                                  TargetPair.priv, millis)} :
          /\ keyCache' = r.keys.cache
          /\ keyCacheIndex' = r.keys.index
          /\ drv' = [drv EXCEPT !.last = [kind |-> "note", priv |-> TargetPair.priv,
                                          at |-> millis, privHit |-> r.hit,
                                          privateKey |-> r.key]]
    /\ UNCHANGED <<millis, ecdhCache, ecdhCacheIndex>>
    /\ CacheRest

Tick ==
    /\ millis < MaxTicks * TickMs
    /\ millis' = millis + TickMs
    /\ UNCHANGED <<keyCache, keyCacheIndex, ecdhCache, ecdhCacheIndex, drv>>
    /\ CacheRest

NextCache ==
    \/ DeriveTarget
    \/ DeriveOther
    \/ Note
    \/ Tick

SpecCache == InitCache /\ [][NextCache]_vars

\* The last step derived a shared secret for a pair derived before.
Rederived == drv.last.kind = "ecdh" /\ drv.last.prev.at >= 0

\* C12: two ECDH derivations for the same pair made less than 5 minutes
\* apart, with at most 7 other pairs stored in between, give the same secret
\* and the second is served from the ECDH cache.
C12_SecondDerivationFromCache ==
    (/\ Rederived
     /\ drv.last.at - drv.last.prev.at < ECDH_CACHE_TTL_MS
     /\ Cardinality(drv.last.prev.between) <= ECDH_CACHE_SIZE - 1)
    => /\ drv.last.sharedSecret = drv.last.prev.secret
       /\ drv.last.found

\* C12 (amended): a derivation made less than 5 minutes after the pair was
\* last stored, with at most 7 other pairs stored since that store, is served
\* from the ECDH cache; every derivation for a pair gives the same secret.
C12_DerivationAfterStoreFromCache ==
    /\ Rederived => drv.last.sharedSecret = drv.last.prev.secret
    /\ (/\ Rederived
        /\ drv.last.at - drv.last.prev.storedAt < ECDH_CACHE_TTL_MS
        /\ Cardinality(drv.last.prev.sinceStore) <= ECDH_CACHE_SIZE - 1)
       => drv.last.found

C12_Witness ==
    /\ Rederived
    /\ drv.last.found
    /\ drv.last.at - drv.last.prev.storedAt = TickMs
    /\ Cardinality(drv.last.prev.sinceStore) = ECDH_CACHE_SIZE - 1

\* C13: a key object that a hit of the key cache returns for hex string H,
\* private or public, is the object the miss path decodes from H, and the
\* secret computed from cached key objects is the one computed from decoded
\* ones.
C13_CacheHitEqualsDecoded ==
    /\ (drv.last.kind \in {"ecdh", "note"} /\ drv.last.privHit)
       => drv.last.privateKey = PrivateKey(fromHex(drv.last.priv))
    /\ (drv.last.kind = "ecdh" /\ drv.last.pubHit)
       => drv.last.publicKey = PublicKey(fromHex(<<"0", "2">> \o drv.last.pub))
    /\ (drv.last.kind = "ecdh" /\ ~drv.last.found)
       => drv.last.sharedSecret = ecdhPoint(PrivateKey(fromHex(drv.last.priv)),
                                            PublicKey(fromHex(<<"0", "2">> \o drv.last.pub)))

\* Both key objects came from the cache, which has wrapped around, and the
\* secret was computed from them.
C13_Witness ==
    /\ drv.last.kind = "ecdh"
    /\ drv.last.privHit /\ drv.last.pubHit
    /\ ~drv.last.found
    /\ keyCache[KEY_CACHE_SIZE].keyHex # <<>>
    /\ millis > 0

(***************************************************************************)
(* The reconnect logic (specification SpecReconnect)                       *)
(*                                                                         *)
(* WiFi is up. The events of the web socket arrive in any order once a     *)
(* connection has been begun; the clock advances in steps of four times    *)
(* the base interval. conn.disconnects counts the disconnect events since  *)
(* the last successful connection, conn.step tells what the last step did. *)
(***************************************************************************)
CONNECTION_TIMEOUT == 30000
MAX_RECONNECT_ATTEMPTS == 10
MIN_RECONNECT_INTERVAL == 5000

MaxElapsed == 8
MaxDisconnects == 10

StepMs == 4 * MIN_RECONNECT_INTERVAL

Min(a, b) == IF a <= b THEN a ELSE b

\* The connection state as one record.
ConnState ==
    [connection_in_progress |-> connection_in_progress,
     reconnection_attempts |-> reconnection_attempts,
     last_reconnect_attempt |-> last_reconnect_attempt,
     manual_reconnect_needed |-> manual_reconnect_needed,
     last_ws_message_received |-> last_ws_message_received,
     wsConnected |-> wsConnected,
     did |-> "none", closed |-> FALSE]

\* websocketEvent(WStype_DISCONNECTED)
wsDisconnected(c) ==
    IF c.reconnection_attempts < MAX_RECONNECT_ATTEMPTS
    THEN [c EXCEPT !.connection_in_progress = FALSE, !.wsConnected = FALSE,
                   !.reconnection_attempts = @ + 1, !.manual_reconnect_needed = TRUE]
    ELSE [c EXCEPT !.connection_in_progress = FALSE, !.wsConnected = FALSE]

\* websocketEvent(WStype_CONNECTED)
wsConnectedEvent(c, now) ==
    [c EXCEPT !.connection_in_progress = FALSE, !.wsConnected = TRUE,
              !.reconnection_attempts = 0, !.manual_reconnect_needed = FALSE,
              !.last_ws_message_received = now]

\* websocketEvent(WStype_CONNECTED) as it would be without the subscription
subscriptionsNone(pubKeyHex) == <<>>

\* websocketEvent(WStype_CONNECTED): the frames given to webSocket.sendTXT, the
\* subscription to the NIP-46 events for the device pubkey. The fixed parts
\* of the text are one atom each.
subscriptions(pubKeyHex) ==
    IF Len(pubKeyHex) > 0
    THEN <<(<<"[\"REQ\", \"signer\", {\"kinds\":[24133], \"#p\":[\"">> \o pubKeyHex)
           \o <<"\"], \"limit\":0}]">>>>
    ELSE <<>>

\* websocketEvent(WStype_ERROR)
wsError(c) == [c EXCEPT !.connection_in_progress = FALSE, !.manual_reconnect_needed = TRUE]

\* connectToRelay(): ready tells that the signer is initialized, has a relay
\* URL and that WiFi is connected.
\* connectToRelay as it would be without the test of connection_in_progress
connectToRelayAnyway(c, ready) ==
    IF ~ready THEN c
    ELSE [c EXCEPT !.connection_in_progress = TRUE, !.did = "attempt"]

connectToRelay(c, ready) ==
    IF ~ready \/ c.connection_in_progress THEN c
    ELSE [c EXCEPT !.connection_in_progress = TRUE, !.did = "attempt"]

\* disconnect(): closed tells that webSocket.disconnect() was called.
disconnect(c) ==
    [c EXCEPT !.wsConnected = FALSE, !.connection_in_progress = FALSE, !.closed = TRUE]

backoff_delay(attempts) == MIN_RECONNECT_INTERVAL * 2^Min(attempts, 5)

\* The reconnect logic of processLoop as it would be without the limit on the
\* attempts
reconnectLogicNoLimit(c, now, ready) ==
    IF c.manual_reconnect_needed /\ ~c.connection_in_progress /\ ~c.wsConnected
    THEN IF Elapsed(now, c.last_reconnect_attempt) >= backoff_delay(c.reconnection_attempts)
         THEN [connectToRelay(c, ready) EXCEPT !.last_reconnect_attempt = now,
                                               !.reconnection_attempts = @ + 1]
         ELSE [c EXCEPT !.did = "wait"]
    ELSE c

\* processLoop: "Handle manual reconnection with exponential backoff"
reconnectLogic(c, now, ready) ==
    IF c.manual_reconnect_needed /\ ~c.connection_in_progress /\ ~c.wsConnected
    THEN IF Elapsed(now, c.last_reconnect_attempt) >= backoff_delay(c.reconnection_attempts)
         THEN IF c.reconnection_attempts < MAX_RECONNECT_ATTEMPTS
              THEN [connectToRelay(c, ready) EXCEPT !.last_reconnect_attempt = now,
                                                    !.reconnection_attempts = @ + 1]
              ELSE [c EXCEPT !.did = "restart"]
         ELSE [c EXCEPT !.did = "wait"]
    ELSE c

\* processLoop as it would be without the check of the connection health
processLoopUnchecked(c, now, ready, wifi) ==
    IF wifi THEN reconnectLogic(c, now, ready) ELSE c

\* processLoop, with background operations not paused: when WiFi is connected,
\* the check of the connection health, then the reconnect logic
processLoop(c, now, ready, wifi) ==
    LET timedOut == c.wsConnected
                    /\ Elapsed(now, c.last_ws_message_received) > CONNECTION_TIMEOUT
        checked == IF timedOut THEN [disconnect(c) EXCEPT !.manual_reconnect_needed = TRUE]
                   ELSE c
    IN  IF wifi THEN reconnectLogic(checked, now, ready) ELSE c

SetConn(c) ==
    /\ connection_in_progress' = c.connection_in_progress
    /\ reconnection_attempts' = c.reconnection_attempts
    /\ last_reconnect_attempt' = c.last_reconnect_attempt
    /\ manual_reconnect_needed' = c.manual_reconnect_needed
    /\ last_ws_message_received' = c.last_ws_message_received
    /\ wsConnected' = c.wsConnected

SignerRest ==
    UNCHANGED <<authorizedClients, prefs, secretKey, userPrivateKeyHex, userPublicKeyHex,
                devicePrivateKeyHex, devicePublicKeyHex, req, prevClients, prevSecret,
                sent, keyOps, relayUrl, unixTimestamp, signer_initialized, pc, n4, oldSecret,
                heap, uptime, out>>

\* What a step of the connection logic leaves alone.
ConnRest == SignerRest /\ UNCHANGED <<cacheVars, wifiConnected>>

\* The attempts in flight after a step that ended as c.
InFlight(c) ==
    (IF c.closed THEN 0 ELSE conn.inflight) + (IF c.did = "attempt" THEN 1 ELSE 0)

\* What conn.step keeps of a step of kind k.
Step(k) ==
    [kind |-> k, at |-> millis, since |-> last_reconnect_attempt,
     attempts |-> reconnection_attempts, n |-> conn.disconnects, closed |-> FALSE]

\* The device after ESP.restart(): every static is what it is at power-on,
\* the Preferences are kept.
ESP_restart ==
    /\ secretKey' = <<>>
    /\ userPrivateKeyHex' = <<>> /\ userPublicKeyHex' = <<>>
    /\ devicePrivateKeyHex' = <<>> /\ devicePublicKeyHex' = <<>>
    /\ relayUrl' = <<>> /\ unixTimestamp' = 0 /\ signer_initialized' = FALSE
    /\ authorizedClients' = <<>> /\ prevClients' = <<>>
    /\ prevSecret' = <<>> /\ sent' = <<>> /\ keyOps' = {} /\ req' = NoReq
    /\ millis' = 0
    /\ keyCache' = initKeyCache /\ keyCacheIndex' = 0
    /\ ecdhCache' = initECDHCache /\ ecdhCacheIndex' = 0
    /\ drv' = NoDrv
    /\ connection_in_progress' = FALSE /\ reconnection_attempts' = 0
    /\ last_reconnect_attempt' = 0 /\ manual_reconnect_needed' = FALSE
    /\ last_ws_message_received' = 0 /\ wsConnected' = FALSE /\ wifiConnected' = FALSE
    /\ pc' = "off"
    /\ heap' = NoHeap
    /\ uptime' = NoUptime
    /\ out' = {}
    /\ UNCHANGED <<prefs, n4, oldSecret>>

\* app.cpp: init() once the device is up
BootReconnect ==
    /\ pc = "off"
    /\ init
    /\ UNCHANGED bootVars

\* app.cpp: WiFi has come up, connectToRelay() unless connected
AppConnect ==
    /\ signer_initialized
    /\ ~wsConnected
    /\ \E c \in {connectToRelay(ConnState, Len(relayUrl) # 0 /\ wifiConnected)} :
          /\ SetConn(c)
          /\ conn' = [conn EXCEPT !.begun = @ \/ c.did = "attempt", !.inflight = InFlight(c),
                                  !.step = [kind |-> "connect",
                                            busy |-> connection_in_progress]]
    /\ UNCHANGED millis
    /\ ConnRest

WsDisconnected ==
    /\ signer_initialized /\ conn.begun
    /\ conn.disconnects < MaxDisconnects
    /\ SetConn(wsDisconnected(ConnState))
    /\ conn' = [conn EXCEPT !.disconnects = @ + 1, !.inflight = 0,
                            !.step = Step("disconnected")]
    /\ UNCHANGED millis
    /\ ConnRest

WsConnected ==
    /\ signer_initialized /\ conn.begun
    /\ ~wsConnected
    /\ SetConn(wsConnectedEvent(ConnState, millis))
    /\ conn' = [conn EXCEPT !.disconnects = 0, !.inflight = 0, !.step = Step("connected")]
    /\ sent' = subscriptions(devicePublicKeyHex)
    /\ UNCHANGED <<authorizedClients, prefs, secretKey, userPrivateKeyHex, userPublicKeyHex,
                   devicePrivateKeyHex, devicePublicKeyHex, req, prevClients, prevSecret,
                   keyOps, relayUrl, unixTimestamp, signer_initialized, pc, n4, oldSecret,
                   heap, uptime, out, cacheVars, wifiConnected>>

WsError ==
    /\ signer_initialized /\ conn.begun
    /\ SetConn(wsError(ConnState))
    /\ conn' = [conn EXCEPT !.inflight = 0, !.step = Step("error")]
    /\ UNCHANGED millis
    /\ ConnRest

\* websocketEvent(WStype_TEXT / WStype_BIN / WStype_PING / WStype_PONG): the
\* time of the frame is kept (the handling of a text frame is the subject of
\* specification Spec).
WsTraffic ==
    /\ signer_initialized /\ wsConnected
    /\ SetConn([ConnState EXCEPT !.last_ws_message_received = millis])
    /\ conn' = [conn EXCEPT !.step = Step("traffic")]
    /\ UNCHANGED millis
    /\ ConnRest

ProcessLoop ==
    /\ signer_initialized
    /\ \E c \in {processLoop(ConnState, millis, Len(relayUrl) # 0, wifiConnected)} :
          IF c.did = "restart"
          THEN /\ ESP_restart
               /\ conn' = [NoConn EXCEPT !.step = Step("restart")]
          ELSE /\ SetConn(c)
               /\ conn' = [conn EXCEPT !.begun = @ \/ c.did = "attempt",
                                       !.inflight = InFlight(c),
                                       !.step = [Step(c.did) EXCEPT !.closed = c.closed]]
               /\ UNCHANGED millis
               /\ ConnRest

\* app.cpp: WiFi is lost, disconnect()
AppDisconnect ==
    /\ signer_initialized
    /\ \E c \in {disconnect(ConnState)} :
          /\ SetConn(c)
          /\ conn' = [conn EXCEPT !.inflight = InFlight(c), !.step = Step("disconnect")]
    /\ UNCHANGED millis
    /\ ConnRest

\* WiFi.status() changes.
WifiChange ==
    /\ signer_initialized
    /\ wifiConnected' = ~wifiConnected
    /\ SetConn(ConnState)
    /\ conn' = [conn EXCEPT !.step = Step("wifi")]
    /\ UNCHANGED cacheVars
    /\ SignerRest

Elapse ==
    /\ signer_initialized
    /\ millis < MaxElapsed * StepMs
    /\ millis' = millis + StepMs
    /\ UNCHANGED <<keyCache, keyCacheIndex, ecdhCache, ecdhCacheIndex, drv, connVars>>
    /\ SignerRest

NextReconnect ==
    \/ BootReconnect
    \/ AppConnect
    \/ WsDisconnected
    \/ WsConnected
    \/ WsError
    \/ WsTraffic
    \/ ProcessLoop
    \/ AppDisconnect
    \/ WifiChange
    \/ Elapse

SpecReconnect == Init /\ [][NextReconnect]_vars

(***************************************************************************)
(* The reconnect logic left alone (specification SpecStall)                *)
(*                                                                         *)
(* The loop task calls processLoop again and again and time goes on, the   *)
(* counter of millis() starting again at 0 at its end; the application     *)
(* calls connectToRelay as often as it likes. The web socket is free to    *)
(* deliver an event or not. Fairness is stated for the start-up, for       *)
(* processLoop, for the clock and for the application's connectToRelay,    *)
(* the last more than the application does: it calls it when WiFi comes    *)
(* up.                                                                     *)
(***************************************************************************)
LongMs == MillisModulus \div 4

ElapseLong ==
    /\ signer_initialized
    /\ millis' = (millis + LongMs) % MillisModulus
    /\ UNCHANGED <<keyCache, keyCacheIndex, ecdhCache, ecdhCacheIndex, drv, connVars>>
    /\ SignerRest

NextStall ==
    \/ BootReconnect
    \/ WifiChange
    \/ AppConnect
    \/ WsDisconnected
    \/ WsConnected
    \/ WsError
    \/ ProcessLoop
    \/ ElapseLong

SpecStall ==
    /\ Init
    /\ [][NextStall]_vars
    /\ WF_vars(BootReconnect)
    /\ WF_vars(ProcessLoop)
    /\ WF_vars(ElapseLong)
    /\ WF_vars(AppConnect)

\* The last step of the connection logic began a connection attempt.
AttemptBegun ==
    \/ conn.step.kind = "attempt"
    \/ conn.step.kind = "connect" /\ ~conn.step.busy /\ connection_in_progress

\* C35: with WiFi connected the signer does not stay without connection for
\* ever: from every state in which it is initialized, WiFi is connected and
\* the relay is not, it comes to be connected, begins a connection attempt
\* or restarts the device (or WiFi is lost), also when the attempt begun
\* before never yields an event of the web socket.
C35_NeverStuckUnconnected ==
    [](( signer_initialized /\ wifiConnected /\ ~wsConnected /\ ~AttemptBegun)
        => <>(\/ wsConnected
              \/ AttemptBegun
              \/ conn.step.kind = "restart"
              \/ ~wifiConnected))

\* C15: reconnection_attempts never exceeds MAX_RECONNECT_ATTEMPTS; once it
\* has reached that value the reconnect logic starts no connection attempt
\* and its only action is ESP.restart(); the reconnect logic never calls
\* ESP.restart() while the counter is below the maximum.
C15_AttemptsCappedThenRestart ==
    /\ reconnection_attempts <= MAX_RECONNECT_ATTEMPTS
    /\ conn.step.kind = "attempt" => conn.step.attempts < MAX_RECONNECT_ATTEMPTS
    /\ conn.step.kind = "restart" => conn.step.attempts = MAX_RECONNECT_ATTEMPTS

C15_Witness ==
    /\ conn.step.kind = "restart"
    /\ conn.step.attempts = MAX_RECONNECT_ATTEMPTS
    /\ pc = "off"

\* C22: an explicit disconnect() resets the backoff state: after it
\* reconnection_attempts is 0 and manual_reconnect_needed is false, so that no
\* automatic reconnect attempt follows it.
C22_DisconnectResetsBackoff ==
    conn.step.kind = "disconnect"
    => (reconnection_attempts = 0 /\ ~manual_reconnect_needed)

\* C23: connectToRelay starts a connection only when connection_in_progress
\* is false: while an attempt is in flight (until a Connected, Disconnected or
\* Error event or an explicit disconnect) a further call starts nothing, so
\* that at most one attempt is in flight at any time.
C23_OneAttemptInFlight ==
    /\ [](conn.inflight <= 1)
    /\ [][connection_in_progress => conn'.inflight <= conn.inflight]_vars

\* connectToRelay was called while an attempt was in flight, and that attempt
\* is still the only one.
C23_Witness ==
    /\ conn.step.kind = "connect"
    /\ conn.step.busy
    /\ conn.inflight = 1
    /\ connection_in_progress

\* C24: while the relay connection is up and WiFi is connected, a processLoop
\* iteration that finds no frame received for more than CONNECTION_TIMEOUT
\* (30 s) disconnects the socket and marks a reconnect as needed, and an
\* iteration within the timeout leaves the connection up; every text, binary,
\* ping or pong frame received restarts the timeout.
C24_SilentConnectionClosed ==
    /\ [][(/\ conn'.step.kind \in {"none", "wait", "attempt"} /\ millis' = millis
            /\ wsConnected /\ wifiConnected)
            => IF millis - last_ws_message_received > CONNECTION_TIMEOUT
               THEN conn'.step.closed /\ ~wsConnected' /\ manual_reconnect_needed'
               ELSE ~conn'.step.closed /\ wsConnected']_vars
    /\ [][(conn'.step.kind = "traffic" /\ millis' = millis)
            => last_ws_message_received' = millis]_vars

\* A connection that had been silent for 40 s, with a frame received before,
\* was closed by processLoop.
C24_Witness ==
    /\ conn.step.kind \in {"wait", "attempt"}
    /\ conn.step.closed
    /\ ~wsConnected
    /\ manual_reconnect_needed
    /\ last_ws_message_received > 0
    /\ millis - last_ws_message_received = 2 * StepMs

\* C25: every transition to Connected sends, within the handling of the
\* Connected event and so before any inbound frame is handled, the one
\* subscription request ["REQ","signer",{kinds:[24133], #p:[device pubkey],
\* limit:0}] on the socket.
C25_SubscribedOnConnected ==
    [][(~wsConnected /\ wsConnected')
        => /\ Len(sent') = 1
           /\ Len(devicePrivateKeyHex) = HexLen
           /\ sent'[1] = <<"[\"REQ\", \"signer\", {\"kinds\":[24133], \"#p\":[\"">>
                         \o publicKey(devicePrivateKeyHex)
                         \o <<"\"], \"limit\":0}]">>]_vars

\* The relay connection came up a second time, after a disconnect.
C25_Witness ==
    /\ conn.step.kind = "connected"
    /\ conn.step.n > 0
    /\ wsConnected
    /\ Len(sent) = 1

\* C14: after N disconnect events in a row without a successful connection,
\* the reconnect logic starts the next attempt not before
\* MIN_RECONNECT_INTERVAL * 2^min(N,5) milliseconds have passed since the
\* attempt before, and starts it once they have.
C14_BackoffByDisconnects ==
    /\ (conn.step.kind = "attempt" /\ conn.step.n > 0)
       => conn.step.at - conn.step.since >= MIN_RECONNECT_INTERVAL * 2^Min(conn.step.n, 5)
    /\ (conn.step.kind = "wait" /\ conn.step.n > 0)
       => conn.step.at - conn.step.since < MIN_RECONNECT_INTERVAL * 2^Min(conn.step.n, 5)

(***************************************************************************)
(* Configuration and restarts (specification SpecConfig)                   *)
(*                                                                         *)
(* The signer is started and restarted, clients connect, and the keys and  *)
(* the relay URL are set through the setters and the configuration portal. *)
(***************************************************************************)
DeviceKeys == {DevicePriv, Key("d", "9")}
KeyArguments == {UserPriv, Key("e", "4"), <<"e">>}
RelayArguments == {<<"w", "s">>}

\* setUserPrivateKey(privKeyHex): the user keys after the call, pub being
\* userPublicKeyHex before it.
setUserPrivateKey(privKeyHex, pub) ==
    [priv |-> privKeyHex,
     pub |-> IF Len(privKeyHex) = HexLen THEN publicKey(privKeyHex) ELSE pub]

\* What the setters and the portal leave alone.
ConfigRest ==
    UNCHANGED <<authorizedClients, secretKey, devicePrivateKeyHex, devicePublicKeyHex,
                prevClients, prevSecret, sent, keyOps, unixTimestamp, signer_initialized,
                pc, n4, auxVars>>

\* init() at the start and after every restart
BootConfig ==
    /\ initWith(DeviceKeys)
    /\ oldSecret' = secretKey
    /\ UNCHANGED <<cacheVars, connVars, heap, uptime>>

\* setUserPrivateKey(privKeyHex), setPrivateKey(privKeyHex)
SetUserPrivateKey ==
    \E k \in KeyArguments :
        /\ signer_initialized
        /\ userPrivateKeyHex' = setUserPrivateKey(k, userPublicKeyHex).priv
        /\ userPublicKeyHex' = setUserPrivateKey(k, userPublicKeyHex).pub
        /\ req' = [NoReq EXCEPT !.payload = "setUserPrivateKey"]
        /\ UNCHANGED <<prefs, relayUrl>>
        /\ ConfigRest

\* setRelayUrl(url)
SetRelayUrl ==
    \E url \in RelayArguments :
        /\ signer_initialized
        /\ relayUrl' = url
        /\ req' = [NoReq EXCEPT !.payload = "setRelayUrl"]
        /\ UNCHANGED <<prefs, userPrivateKeyHex, userPublicKeyHex>>
        /\ ConfigRest

\* WiFiManager::handleAPConfig: a private key of the length of a key and a
\* relay URL are set and stored.
APConfig ==
    \E k \in {x \in KeyArguments : Len(x) = HexLen}, url \in RelayArguments :
        /\ signer_initialized
        /\ relayUrl' = url
        /\ userPrivateKeyHex' = setUserPrivateKey(k, userPublicKeyHex).priv
        /\ userPublicKeyHex' = setUserPrivateKey(k, userPublicKeyHex).pub
        /\ prefs' = [prefs EXCEPT !.private_key = k, !.public_key = publicKey(k),
                                  !.relay_url = url]
        /\ req' = [NoReq EXCEPT !.payload = "handleAPConfig"]
        /\ ConfigRest

\* A connect of one client that carries the session secret or the secret of
\* the boot before.
ConnectConfig ==
    \E s \in {secretKey, oldSecret} :
        Deliver(Key("a", "7"), TRUE, "doc", Doc(Id1, "connect", <<devicePublicKeyHex, s>>), Rnd1)

\* WiFiManager::handleAPRoot: the form of the portal, the fields filled in
\* with the values in use.
PortalForm ==
    <<"<input type=\"password\" name=\"private_key\" value=\"", "{{private_key}}", "\">",
      "<input type=\"text\" name=\"relay_url\" value=\"", "{{relay_url}}", "\">">>

handleAPRoot(currentPrivateKey, currentRelay) ==
    LET html == IF Len(currentPrivateKey) > 0
                THEN replace(PortalForm, "{{private_key}}", currentPrivateKey)
                ELSE PortalForm
    IN  replace(html, "{{relay_url}}",
                IF Len(currentRelay) > 0 THEN currentRelay ELSE <<"wss://relay.nostrconnect.com">>)

APRoot ==
    /\ signer_initialized
    /\ out' = {[channel |-> "http", text |-> handleAPRoot(userPrivateKeyHex, relayUrl)]}
    /\ req' = [NoReq EXCEPT !.payload = "handleAPRoot"]
    /\ UNCHANGED <<authorizedClients, prefs, secretKey, userPrivateKeyHex, userPublicKeyHex,
                   devicePrivateKeyHex, devicePublicKeyHex, prevClients, prevSecret, sent,
                   keyOps, relayUrl, unixTimestamp, signer_initialized, pc, n4, bootVars>>

NextConfig ==
    \/ BootConfig
    \/ ConnectConfig
    \/ SetUserPrivateKey
    \/ SetRelayUrl
    \/ APConfig
    \/ APRoot

SpecConfig == Init /\ [][NextConfig]_vars

\* C36: no private key appears in an output: no line that
\* loadConfigFromPreferences writes to Serial and no page that the portal
\* sends holds the user's or the device's private key in use.
C36_NoPrivateKeyInOutput ==
    \A o \in out :
        \A k \in {userPrivateKeyHex, devicePrivateKeyHex} :
            Len(k) > 0 => indexOf(o.text, k) = -1

\* C17: after every init the session secret has exactly the length of a key
\* and only lowercase hex characters; no stored value is the secret; after a
\* restart, a connect that carries the secret of the boot before, from a
\* requester not in the list, changes nothing and is not answered.
C17_SecretFreshAndNotPersisted ==
    /\ signer_initialized
       => /\ Len(secretKey) = HexLen
          /\ \A i \in 1..Len(secretKey) : \E j \in 1..16 : secretKey[i] = HexDigits[j]
          /\ \A k \in DOMAIN prefs : prefs[k] # secretKey
    /\ (/\ IsRequest("connect")
        /\ trim(req.doc.params[2]) = oldSecret
        /\ oldSecret # prevSecret
        /\ ~Listed(prevClients, req.pubkey))
       => authorizedClients = prevClients /\ sent = <<>>

\* A connect with the secret of the boot before was denied after a restart
\* that has drawn another secret.
C17_Witness ==
    /\ IsRequest("connect")
    /\ Len(oldSecret) = HexLen
    /\ req.doc.params[2] = oldSecret
    /\ oldSecret # secretKey
    /\ ~Listed(authorizedClients, req.pubkey)

\* C18: at every point after init and after any call of setUserPrivateKey or
\* setPrivateKey, userPublicKeyHex is the public key of userPrivateKeyHex.
C18_PublicKeyOfStoredPrivateKey ==
    signer_initialized => userPublicKeyHex = publicKey(userPrivateKeyHex)

\* C19: once the signer is initialized, no operation changes the device keys,
\* the stored dev_priv_key is the device key in use, and a device key is
\* generated only when no dev_priv_key of the length of a key is stored.
C19_DeviceKeyKept ==
    /\ [](signer_initialized
          => /\ getString(prefs, "dev_priv_key", <<>>) = devicePrivateKeyHex
             /\ getString(prefs, "dev_pub_key", <<>>) = devicePublicKeyHex
             /\ devicePublicKeyHex = publicKey(devicePrivateKeyHex))
    /\ [][/\ signer_initialized
             => /\ devicePrivateKeyHex' = devicePrivateKeyHex
                /\ devicePublicKeyHex' = devicePublicKeyHex
          /\ devicePrivateKeyHex' # devicePrivateKeyHex
             => Len(getString(prefs, "dev_priv_key", <<>>)) # HexLen]_vars

\* The signer has restarted after the user key and the relay URL were set and
\* a client was added, and runs with the stored device key.
C19_Witness ==
    /\ Len(oldSecret) = HexLen
    /\ req = NoReq
    /\ userPrivateKeyHex # UserPriv
    /\ relayUrl # DefaultRelay
    /\ authorizedClients # <<>>
    /\ devicePrivateKeyHex = getString(prefs, "dev_priv_key", <<>>)
    /\ devicePrivateKeyHex \in DeviceKeys

(***************************************************************************)
(* Persistence and keys (specification Spec)                               *)
(***************************************************************************)
\* A step that is a restart of the running signer: init() is the only step
\* that leaves no request behind.
IsRestart ==
    signer_initialized /\ req' = NoReq /\ sent' = <<>> /\ unixTimestamp' = 0 /\ pc' = "run"

C20_UserKeyAfterAuthorization ==
    \A o \in keyOps :
        o.op \in UserOps
        => /\ req.payload = "doc"
           /\ req.doc.method = o.op
           /\ Listed(prevClients, req.pubkey)

\* An authorized client had an event signed or a text decrypted.
C20_Witness ==
    /\ Listed(prevClients, req.pubkey)
    /\ \/ IsRequest("sign_event")
          /\ [op |-> "sign_event", key |-> userPrivateKeyHex] \in keyOps
       \/ IsRequest("nip44_decrypt")
          /\ [op |-> "nip44_decrypt", key |-> userPrivateKeyHex] \in keyOps
    /\ Len(sent) = 1

\* C26: when the text of an inbound relay frame does not deserialize, the
\* dispatcher stops before any decryption: neither the NIP-04 nor the NIP-44
\* decryption routine is run with the device private key on what was read
\* from the unparsed frame.
C26_UnparsedFrameNotDecrypted ==
    req.payload = "badframe" => keyOps = {}

\* C27: NIP-04 decryption of a cipher text without "?iv=" fails without
\* running AES and yields no plaintext; for the cipher text parameter of a
\* nip04_decrypt request this means that the user private key is not used on
\* it and that no response carrying a decryption result is sent.
C27_NoIvNoDecryption ==
    (IsRequest("nip04_decrypt") /\ ~req.doc.params[2].marker)
    => /\ sent = <<>>
       /\ \A o \in keyOps : o.op # "nip04_decrypt"

\* C34: when the device restarts after the configuration portal has saved a
\* user private key, init loads that key, whatever connects and saves came
\* before the portal saved it.
C34_PortalKeyLoadedAtRestart ==
    [][(req.payload = "handleAPConfig" /\ req' = NoReq)
        => userPrivateKeyHex' = userPrivateKeyHex]_vars

(***************************************************************************)
(* Heap use of NIP-04 encryption (specification SpecHeap)                  *)
(*                                                                         *)
(* heap.blocks and heap.bytes are the blocks got from malloc and not yet   *)
(* freed; heap.last describes the last call: whether one of its            *)
(* allocations failed, whether it wrote through a null pointer, the length *)
(* of the String it returned and whether that String holds "?iv=".         *)
(* heap.i is the loop counter of benchmarkMemoryFragmentation, -1 outside  *)
(* the benchmark, and heap.initialHeap the bytes in use when it began;     *)
(* heap.calls counts the calls since the device started.                   *)
(***************************************************************************)
MaxCalls == 3
BenchCycles == 10
BenchMessageLen == 1024
LeakLimit == 1024
IvLen == 16

MsgLens == {0, 16, BenchMessageLen}

\* malloc(size): a block when ok, the null pointer otherwise.
malloc(h, size, ok) ==
    IF ok THEN [h EXCEPT !.blocks = @ + 1, !.bytes = @ + size] ELSE h

free(h, size) == [h EXCEPT !.blocks = @ - 1, !.bytes = @ - size]

\* encryptData as to memory: messageBin of byteSize bytes is allocated; when
\* that fails the empty String is returned, else the hex text of the buffer.
\* The buffer is not released.
encryptDataHeap(h, msgLen, ok) ==
    LET padding_diff == IF msgLen % AES_BLOCKLEN = 0 THEN AES_BLOCKLEN
                        ELSE AES_BLOCKLEN - (msgLen % AES_BLOCKLEN)
        byteSize == msgLen + padding_diff
    IN  [heap |-> malloc(h, byteSize, ok),
         failed |-> ~ok,
         len |-> IF ok THEN 2 * byteSize ELSE 0]

\* getCipherText as to memory: encryptData, then a second buffer of half the
\* length of the hex text; a null pointer is reported on the serial line and
\* fromHex then writes encryptedMessageSize bytes to it. The String returned
\* is base64(encrypted message) + "?iv=" + base64(iv) in every case.
getCipherTextHeap(h, msgLen, ok1, ok2) ==
    LET enc == encryptDataHeap(h, msgLen, ok1)
        encryptedMessageSize == enc.len \div 2
    IN  [heap |-> malloc(enc.heap, encryptedMessageSize, ok2),
         failed |-> enc.failed \/ ~ok2,
         nullWrite |-> ~ok2 /\ encryptedMessageSize > 0,
         len |-> Base64Len(encryptedMessageSize) + 4 + Base64Len(IvLen)]

InitHeap ==
    /\ PowerOn
    /\ authorizedClients = <<>> /\ prevClients = <<>>
    /\ req = NoReq
    /\ prefs = ConfiguredPrefs
    /\ n4 = NoN4
    /\ pc = "idle"

HeapRest ==
    UNCHANGED <<authorizedClients, prefs, secretKey, userPrivateKeyHex, userPublicKeyHex,
                devicePrivateKeyHex, devicePublicKeyHex, req, prevClients, prevSecret,
                sent, keyOps, relayUrl, unixTimestamp, signer_initialized, pc, n4,
                cacheVars, connVars, oldSecret, uptime, out>>

\* A call of getCipherText. A write through the null pointer is undefined:
\* the call returns as if nothing happened, or the device faults and starts
\* again with a fresh heap.
CipherTextCall ==
    \E msgLen \in MsgLens, ok1, ok2, fault \in BOOLEAN :
        /\ heap.i = -1
        /\ heap.calls < MaxCalls
        /\ \E r \in {getCipherTextHeap(heap, msgLen, ok1, ok2)} :
             LET call == [NoCall EXCEPT !.op = "getCipherText", !.failed = r.failed,
                                        !.nullWrite = r.nullWrite, !.len = r.len,
                                        !.marker = TRUE]
             IN  /\ fault => r.nullWrite
                 /\ heap' = IF fault
                            THEN [NoHeap EXCEPT !.last = [call EXCEPT !.crashed = TRUE,
                                                                      !.len = 0,
                                                                      !.marker = FALSE]]
                            ELSE [r.heap EXCEPT !.calls = @ + 1, !.last = call]
        /\ HeapRest

\* benchmarkMemoryFragmentation up to its loop
BenchStart ==
    /\ heap.i = -1
    /\ heap.calls < MaxCalls
    /\ heap' = [heap EXCEPT !.i = 0, !.calls = @ + 1, !.initialHeap = heap.bytes]
    /\ HeapRest

\* One turn of the loop: encryptData on the test message, then a buffer of
\* encSize bytes that is released again.
BenchCycle ==
    \E ok, okEnc \in BOOLEAN :
        /\ heap.i \in 0..(BenchCycles - 1)
        /\ \E r \in {encryptDataHeap(heap, BenchMessageLen, ok)} :
             LET encSize == r.len \div 2
                 h1 == malloc(r.heap, encSize, okEnc)
                 h2 == IF okEnc THEN free(h1, encSize) ELSE h1
             IN  heap' = [h2 EXCEPT !.i = @ + 1,
                                    !.last = [NoCall EXCEPT !.op = "encryptData",
                                                            !.failed = r.failed,
                                                            !.len = r.len]]
        /\ HeapRest

\* The end of the benchmark: the heap lost since its start against 1 KB.
BenchEnd ==
    /\ heap.i = BenchCycles
    /\ heap' = [heap EXCEPT !.i = -1,
                            !.last = [NoCall EXCEPT !.op = "benchmark",
                                        !.success = (heap.bytes - heap.initialHeap) < LeakLimit]]
    /\ HeapRest

NextHeap ==
    \/ CipherTextCall
    \/ BenchStart
    \/ BenchCycle
    \/ BenchEnd

SpecHeap == InitHeap /\ [][NextHeap]_vars

\* C28: when an allocation fails in encryptData or in getCipherText, the call
\* fails soft: nothing is written through a null pointer, the device does not
\* fault, and the String returned is the empty String, not a cipher text.
C28_AllocationFailureFailsSoft ==
    (heap.last.op \in {"encryptData", "getCipherText"} /\ heap.last.failed)
    => /\ ~heap.last.nullWrite
       /\ ~heap.last.crashed
       /\ heap.last.len = 0
       /\ ~heap.last.marker

\* C29: encryption leaves nothing on the heap: after a call of encryptData or
\* getCipherText no block is still allocated, and the benchmark of 10 cycles
\* on a message of 1024 bytes ends with less than 1 KB of heap lost.
C29_NoHeapRetained ==
    /\ heap.blocks = 0
    /\ heap.last.op = "benchmark" => heap.last.success

(***************************************************************************)
(* The caches over a long run (specification SpecWrap)                     *)
(*                                                                         *)
(* The shared secret of the target pair is derived again and again; the    *)
(* clock advances by half the time to live, and once by a long idle time   *)
(* that takes the counter of millis() close to its end. uptime.ms is the   *)
(* time since the start, which the counter holds modulo MillisModulus;     *)
(* uptime.keyAt and uptime.ecdhAt tell at what time each slot was stored;  *)
(* uptime.last tells of the last derivation which of its three look-ups    *)
(* hit and how long before the entries they returned had been stored.      *)
(***************************************************************************)
MaxWrapTicks == 4

IdleMs == MillisModulus - 2 * TickMs

\* The slot getCachedPrivateKey (isPriv) or getCachedPublicKey returns.
ServedKeySlot(cache, keyHex, isPriv, currentTime) ==
    SetMin({i \in 1..KEY_CACHE_SIZE :
               /\ cache[i].keyHex = keyHex
               /\ cache[i].isPrivateKey = isPriv
               /\ Elapsed(currentTime, cache[i].timestamp) < KEY_CACHE_TTL_MS})

\* The slot getECDHFromCache returns.
ServedEcdhSlot(cache, privateKeyHex, publicKeyHex, currentTime) ==
    SetMin({i \in 1..ECDH_CACHE_SIZE :
               /\ cache[i].privateKeyHex = privateKeyHex
               /\ cache[i].publicKeyHex = publicKeyHex
               /\ Elapsed(currentTime, cache[i].timestamp) < ECDH_CACHE_TTL_MS})

InitWrap ==
    /\ PowerOn
    /\ authorizedClients = <<>> /\ prevClients = <<>>
    /\ req = NoReq
    /\ n4 = NoN4
    /\ prefs = ConfiguredPrefs
    /\ pc = "wrap"

WrapRest ==
    UNCHANGED <<authorizedClients, prefs, secretKey, userPrivateKeyHex, userPublicKeyHex,
                devicePrivateKeyHex, devicePublicKeyHex, req, prevClients, prevSecret,
                sent, keyOps, relayUrl, unixTimestamp, signer_initialized, pc, n4, connVars,
                oldSecret, heap, drv, out>>

\* storePrivateKeyInCache / storePublicKeyInCache as the history sees it:
\* before and after are the key cache with its index around the store. The
\* objects the two pointers of the slot pointed to are deleted where the
\* pointer was not null; the object stored is a new one.
KeyStored(u, before, after) ==
    LET slot == before.index + 1
        was == before.cache[slot]
        is == after.cache[slot]
        k == u.keyN + 1
        gone == (IF was.privateKey # nullptr THEN <<u.keyIds[slot].priv>> ELSE <<>>)
                \o (IF was.publicKey # nullptr THEN <<u.keyIds[slot].pub>> ELSE <<>>)
        ids == [priv |-> IF is.privateKey = nullptr THEN 0
                         ELSE IF is.isPrivateKey THEN k ELSE u.keyIds[slot].priv,
                pub |-> IF is.publicKey = nullptr THEN 0
                        ELSE IF ~is.isPrivateKey THEN k ELSE u.keyIds[slot].pub]
    IN  [u EXCEPT !.keyN = k,
                  !.keyAt[slot] = u.ms,
                  !.keySeq[slot] = k,
                  !.keyIds[slot] = ids,
                  !.deleted = @ \o gone]

\* storeECDHInCache as the history sees it.
EcdhStored(u, before) ==
    [u EXCEPT !.ecdhN = @ + 1,
              !.ecdhAt[before.index + 1] = u.ms,
              !.ecdhSeq[before.index + 1] = u.ecdhN + 1]

\* The key and secret derivation of getCipherText or decryptNip04Ciphertext
\* for the pair p, and what the history keeps of it.
DeriveWithHistory(p, fresh) ==
    /\ \E r \in {sharedPointX([cache |-> keyCache, index |-> keyCacheIndex],
                              [cache |-> ecdhCache, index |-> ecdhCacheIndex],
                              p.priv, p.pub, millis)} :
        \E priv \in {privateKeyObject([cache |-> keyCache, index |-> keyCacheIndex],
                                      p.priv, millis)} :
          LET fullPubKeyHex == <<"0", "2">> \o p.pub
              u1 == IF r.privHit THEN uptime
                    ELSE KeyStored(uptime, [cache |-> keyCache, index |-> keyCacheIndex],
                                   priv.keys)
              u2 == IF r.pubHit THEN u1 ELSE KeyStored(u1, priv.keys, r.keys)
              u3 == IF r.found THEN u2
                    ELSE EcdhStored(u2, [cache |-> ecdhCache, index |-> ecdhCacheIndex])
              privAge == IF r.privHit
                         THEN uptime.ms - uptime.keyAt[ServedKeySlot(keyCache, p.priv,
                                                                     TRUE, millis)]
                         ELSE 0
              pubAge == IF r.pubHit
                        THEN uptime.ms - u1.keyAt[ServedKeySlot(priv.keys.cache, fullPubKeyHex,
                                                                FALSE, millis)]
                        ELSE 0
              ecdhSlot == IF r.found
                          THEN ServedEcdhSlot(ecdhCache, p.priv, p.pub, millis)
                          ELSE 0
              ecdhAge == IF r.found THEN uptime.ms - uptime.ecdhAt[ecdhSlot] ELSE 0
          IN  /\ keyCache' = r.keys.cache
              /\ keyCacheIndex' = r.keys.index
              /\ ecdhCache' = r.ecdhs.cache
              /\ ecdhCacheIndex' = r.ecdhs.index
              /\ uptime' = [u3 EXCEPT
                              !.others = @ + fresh,
                              !.last = [kind |-> "ecdh",
                                        privHit |-> r.privHit, privAge |-> privAge,
                                        pubHit |-> r.pubHit, pubAge |-> pubAge,
                                        found |-> r.found, ecdhAge |-> ecdhAge,
                                        wrapped |-> uptime.ms >= MillisModulus,
                                        priv |-> p.priv, pub |-> p.pub,
                                        ecdhSlot |-> ecdhSlot]]
    /\ UNCHANGED millis
    /\ WrapRest

WrapDerive == DeriveWithHistory(TargetPair, 0)

\* Time passes; the counter starts again at 0 when it reaches its end.
WrapElapse(ms) ==
    /\ millis' = (millis + ms) % MillisModulus
    /\ UNCHANGED <<keyCache, keyCacheIndex, ecdhCache, ecdhCacheIndex>>
    /\ WrapRest

WrapTick ==
    /\ uptime.ticks < MaxWrapTicks
    /\ uptime' = [uptime EXCEPT !.ms = @ + TickMs, !.ticks = @ + 1]
    /\ WrapElapse(TickMs)

WrapIdle ==
    /\ ~uptime.idled
    /\ uptime' = [uptime EXCEPT !.ms = @ + IdleMs, !.idled = TRUE]
    /\ WrapElapse(IdleMs)

NextWrap ==
    \/ WrapDerive
    \/ WrapTick
    \/ WrapIdle

SpecWrap == InitWrap /\ [][NextWrap]_vars

\* C30: no look-up in the key cache or in the ECDH cache returns an entry
\* that was stored 300000 ms or more before, whether or not the counter of
\* millis() has started again at 0 since the entry was stored.
C30_NoExpiredEntryServed ==
    uptime.last.kind = "ecdh"
    => /\ uptime.last.privHit => uptime.last.privAge < KEY_CACHE_TTL_MS
       /\ uptime.last.pubHit => uptime.last.pubAge < KEY_CACHE_TTL_MS
       /\ uptime.last.found => uptime.last.ecdhAge < ECDH_CACHE_TTL_MS

(***************************************************************************)
(* The caches as rings (specification SpecRing)                            *)
(*                                                                         *)
(* The target pair and the pair of two empty strings are derived at any    *)
(* time, the other pairs one after the other; the clock advances once, by  *)
(* half the time to live.                                                  *)
(* uptime keeps the history of the stores (see NoUptime).                  *)
(***************************************************************************)
MaxRingOthers == 8

EmptyPair == [priv |-> <<>>, pub |-> <<>>]

RingDeriveOther ==
    /\ uptime.others < MaxRingOthers
    /\ DeriveWithHistory(OtherPair(uptime.others + 1), 1)

RingDeriveEmpty == DeriveWithHistory(EmptyPair, 0)

\* Half the time to live passes, once.
RingTick ==
    /\ uptime.ticks = 0
    /\ uptime' = [uptime EXCEPT !.ms = @ + TickMs, !.ticks = @ + 1]
    /\ WrapElapse(TickMs)

NextRing ==
    \/ WrapDerive
    \/ RingDeriveOther
    \/ RingDeriveEmpty
    \/ RingTick

SpecRing == InitWrap /\ [][NextRing]_vars

\* How often the key object id is pointed to by a slot of the key cache.
Held(id) ==
    Cardinality({i \in 1..KEY_CACHE_SIZE : keyCache[i].privateKey # nullptr
                                           /\ uptime.keyIds[i].priv = id})
    + Cardinality({i \in 1..KEY_CACHE_SIZE : keyCache[i].publicKey # nullptr
                                             /\ uptime.keyIds[i].pub = id})

Deleted(id) == Cardinality({j \in 1..Len(uptime.deleted) : uptime.deleted[j] = id})

\* C31: each slot of the key cache holds at most one key object, a private
\* key exactly when isPrivateKey is set and a public key otherwise (a slot
\* never written holds none), and every key object allocated for the cache
\* is held by exactly one slot and not deleted, or held by none and deleted
\* exactly once.
C31_OneObjectPerSlot ==
    /\ \A i \in 1..KEY_CACHE_SIZE :
          /\ keyCache[i].privateKey # nullptr => keyCache[i].isPrivateKey
          /\ keyCache[i].publicKey # nullptr => ~keyCache[i].isPrivateKey
          /\ uptime.keySeq[i] # 0
             => (keyCache[i].privateKey # nullptr \/ keyCache[i].publicKey # nullptr)
    /\ \A id \in 1..uptime.keyN : Held(id) + Deleted(id) = 1

\* The key cache has gone round: objects were deleted, and it holds keys of
\* both kinds.
C31_Witness ==
    /\ uptime.keyN > KEY_CACHE_SIZE
    /\ Len(uptime.deleted) = uptime.keyN - KEY_CACHE_SIZE
    /\ \E i, j \in 1..KEY_CACHE_SIZE : keyCache[i].isPrivateKey /\ keyCache[j].publicKey # nullptr

\* The slots the stores number n + 1 to m go to, in a ring of size slots.
SlotsOf(n, m, size) == {((k - 1) % size) + 1 : k \in (n + 1)..m}

Before(k, size) == IF k > size THEN k - size ELSE 0

\* C32: the k-th store into a cache goes to slot (k-1) mod capacity (counted
\* from 0), 8 for the ECDH cache and 6 for the key cache with one index for
\* private and public keys; it replaces the entry of the store capacity
\* stores earlier and leaves every other slot as it was; a step without a
\* store leaves the caches and their indices as they were.
C32_FifoRings ==
    /\ [](/\ ecdhCacheIndex = uptime.ecdhN % ECDH_CACHE_SIZE
          /\ keyCacheIndex = uptime.keyN % KEY_CACHE_SIZE
          /\ \A i \in 1..ECDH_CACHE_SIZE :
                uptime.ecdhSeq[i] # 0 => (uptime.ecdhSeq[i] - 1) % ECDH_CACHE_SIZE = i - 1
          /\ \A i \in 1..KEY_CACHE_SIZE :
                uptime.keySeq[i] # 0 => (uptime.keySeq[i] - 1) % KEY_CACHE_SIZE = i - 1)
    /\ [][/\ \A i \in 1..ECDH_CACHE_SIZE :
                IF i \in SlotsOf(uptime.ecdhN, uptime'.ecdhN, ECDH_CACHE_SIZE)
                THEN /\ uptime'.ecdhSeq[i] = uptime.ecdhN + 1
                     /\ uptime.ecdhSeq[i] = Before(uptime'.ecdhSeq[i], ECDH_CACHE_SIZE)
                     /\ ecdhCache'[i].privateKeyHex = uptime'.last.priv
                     /\ ecdhCache'[i].publicKeyHex = uptime'.last.pub
                ELSE ecdhCache'[i] = ecdhCache[i] /\ uptime'.ecdhSeq[i] = uptime.ecdhSeq[i]
          /\ \A i \in 1..KEY_CACHE_SIZE :
                IF i \in SlotsOf(uptime.keyN, uptime'.keyN, KEY_CACHE_SIZE)
                THEN /\ uptime'.keySeq[i] \in (uptime.keyN + 1)..uptime'.keyN
                     /\ uptime.keySeq[i] = Before(uptime'.keySeq[i], KEY_CACHE_SIZE)
                     /\ keyCache'[i] # keyCache[i]
                ELSE keyCache'[i] = keyCache[i] /\ uptime'.keySeq[i] = uptime.keySeq[i]
          /\ uptime'.ecdhN = uptime.ecdhN => ecdhCacheIndex' = ecdhCacheIndex
          /\ uptime'.keyN = uptime.keyN => keyCacheIndex' = keyCacheIndex]_vars

\* Both rings have gone round, and the last derivation was served from the
\* ECDH cache.
C32_Witness ==
    /\ uptime.ecdhN > ECDH_CACHE_SIZE
    /\ uptime.keyN > KEY_CACHE_SIZE
    /\ uptime.last.kind = "ecdh" /\ uptime.last.found /\ uptime.last.privHit

\* C38: getECDHFromCache finds only what storeECDHInCache stored: the slot it
\* serves was written by a store, for the pair asked for; a slot never
\* written is not served, for no pair, the pair of two empty strings
\* included.
C38_OnlyStoredPairsServed ==
    (uptime.last.kind = "ecdh" /\ uptime.last.found)
    => /\ uptime.ecdhSeq[uptime.last.ecdhSlot] # 0
       /\ ecdhCache[uptime.last.ecdhSlot].privateKeyHex = uptime.last.priv
       /\ ecdhCache[uptime.last.ecdhSlot].publicKeyHex = uptime.last.pub

(***************************************************************************)
(* The look-up in the client list (specification SpecAuth)                 *)
(*                                                                         *)
(* Pubkeys of a small pool are added to the list, and isClientAuthorized   *)
(* is asked about any text: a pubkey of the pool, the empty text, a part   *)
(* of a pubkey, a text with the delimiter in it. pc tells its answer.      *)
(***************************************************************************)
NumAuthKeys == 3

\* The texts isClientAuthorized is asked about: every part of the full list,
\* and the pubkeys of the pool.
AuthQueries ==
    LET full == FirstClients(NumAuthKeys)
    IN  {SubSeq(full, i, j) : i \in 1..(Len(full) + 1), j \in 0..Len(full)}
        \cup {CapKey(i) : i \in 1..(NumAuthKeys + 1)}

InitAuth ==
    /\ PowerOn
    /\ authorizedClients = <<>> /\ prevClients = <<>>
    /\ prefs = ConfiguredPrefs
    /\ req = NoReq
    /\ n4 = NoN4
    /\ pc = "start"

AuthRest ==
    UNCHANGED <<secretKey, userPrivateKeyHex, userPublicKeyHex, devicePrivateKeyHex,
                devicePublicKeyHex, prevSecret, sent, keyOps, relayUrl, unixTimestamp,
                signer_initialized, n4, auxVars>>

\* addAuthorizedClient(CapKey(i)), with the save it ends with
AuthAdd ==
    \E i \in 1..NumAuthKeys :
        /\ authorizedClients' = addAuthorizedClient(authorizedClients, CapKey(i))
        /\ prefs' = IF indexOf(authorizedClients, CapKey(i)) = -1
                    THEN SavedPrefs(prefs, relayUrl, userPrivateKeyHex, userPublicKeyHex,
                                    addAuthorizedClient(authorizedClients, CapKey(i)))
                    ELSE prefs
        /\ prevClients' = authorizedClients
        /\ req' = [NoReq EXCEPT !.payload = "add", !.pubkey = CapKey(i)]
        /\ pc' = "added"
        /\ AuthRest

\* isClientAuthorized(P)
AuthAsk ==
    \E P \in AuthQueries :
        /\ pc' = IF isClientAuthorized(authorizedClients, P) THEN "authorized" ELSE "refused"
        /\ req' = [NoReq EXCEPT !.payload = "ask", !.pubkey = P]
        /\ prevClients' = authorizedClients
        /\ UNCHANGED <<authorizedClients, prefs>>
        /\ AuthRest

NextAuth ==
    \/ AuthAdd
    \/ AuthAsk

SpecAuth == InitAuth /\ [][NextAuth]_vars

\* C33: isClientAuthorized(P) answers true only for a text P that is one of
\* the pubkeys stored in the list, whatever P is: the empty text, a part of
\* a stored pubkey, a text that holds the delimiter.
C33_AuthorizedOnlyListed ==
    (req.payload = "ask" /\ pc = "authorized") => Listed(authorizedClients, req.pubkey)
====
